---- MODULE Spec2Model ----
\* Model of the annotation aggregation and consensus engine of
\* superannotate/lib/app/analytics/common.py:
\*   aggregate_image_annotations_as_df (corpus aggregator and record normalizer)
\*   df_to_annotations (the table written back as annotation files)
\*   image_consensus / instance_consensus (instance matcher and scorer).
\*
\* Representation.
\*   A file name is a sequence of tokens ("img1", "___objects.json"); the string
\*   is their concatenation.  str.split and the substring test act on tokens.
\*   Python None is the string None in string columns, NullId in instanceId
\*   and MetaNone in the meta column.
\*   A score is an exact fraction <<n, d>> with d > 0 where Python has a float.
\*   A table row carries every column of annotation_data; commentResolved
\*   and tag are columns only when include_comments and include_tags are set.
\*   The files of the root are one sequence in listing order; the directories
\*   they lie in are entries of the listing too, each met right before its
\*   first file, and glob and rglob return the matching entries, files and
\*   directories alike, in that order.
EXTENDS Integers, Sequences, FiniteSets, TLC

\* ------------------------------------------------------------------ bounds
MaxFiles == 2
MaxInst == 2

\* ------------------------------------------------------------ null values
None == "None"
NullId == -1
MetaNone == [none |-> TRUE]

\* ------------------------------------------------------------ file names
OBJECTS == "___objects.json"
PIXEL == "___pixel.json"
JSON == ".json"

\* "".join(tokens)
RECURSIVE Concat(_)
Concat(toks) == IF toks = <<>> THEN "" ELSE Head(toks) \o Concat(Tail(toks))

\* sub in name   (substring test on a file name)
Contains(name, sub) == \E i \in 1..Len(name) : name[i] = sub

\* name.split(sep): the list of parts between the occurrences of sep
RECURSIVE SplitFrom(_, _, _)
SplitFrom(name, sep, cur) ==
    IF name = <<>> THEN <<cur>>
    ELSE IF Head(name) = sep THEN <<cur>> \o SplitFrom(Tail(name), sep, <<>>)
    ELSE SplitFrom(Tail(name), sep, Append(cur, Head(name)))

Split(name, sep) == SplitFrom(name, sep, <<>>)

\* the name matches the pattern "*.json" of glob and rglob (lines 172, 297)
IsJsonName(name) == name # <<>> /\ name[Len(name)] \in {JSON, OBJECTS, PIXEL}

\* Path.suffix == ".json" (line 291): a name that is ".json" and nothing else
\* has no suffix
HasJsonSuffix(name) == IsJsonName(name) /\ name # <<JSON>>

\* Path.match("*___objects.json")
EndsWithObjects(name) == name # <<>> /\ name[Len(name)] = OBJECTS

\* ------------------------------------------------------- classes/classes.json
ClassesJson ==
    << [name |-> "car", color |-> "#ff0000",
        attribute_groups |-> << [name |-> "g1", attributes |-> <<"a1", "a2">>] >>],
       [name |-> "bus", color |-> "#00ff00",
        attribute_groups |-> << [name |-> "g2", attributes |-> <<"b1">>] >>] >>

SeqToSet(s) == {s[i] : i \in 1..Len(s)}

\* class_name_to_color
ClassNameToColor(cj) ==
    [n \in {cj[i].name : i \in 1..Len(cj)} |->
        LET i == CHOOSE j \in 1..Len(cj) :
                    cj[j].name = n /\ \A k \in (j+1)..Len(cj) : cj[k].name # n
        IN cj[i].color]

\* class_group_name_to_values
ClassGroupNameToValues(cj) ==
    [n \in {cj[i].name : i \in 1..Len(cj)} |->
        LET i == CHOOSE j \in 1..Len(cj) :
                    cj[j].name = n /\ \A k \in (j+1)..Len(cj) : cj[k].name # n
            gs == cj[i].attribute_groups
        IN [g \in {gs[j].name : j \in 1..Len(gs)} |->
               LET j == CHOOSE m \in 1..Len(gs) :
                           gs[m].name = g /\ \A k \in (m+1)..Len(gs) : gs[k].name # g
               IN gs[j].attributes]]

\* ------------------------------------------------------------ the export root
\* A file of the export root: the directories from the root down to it, its
\* name and its decoded JSON.
Geom(n) == [x1 |-> n, y1 |-> 0, x2 |-> n + 2, y2 |-> 2]

Instance(cls, attrs, n) ==
    [className |-> cls, type |-> "bbox", attributes |-> attrs,
     points |-> Geom(n), locked |-> IF n % 2 = 0 THEN "False" ELSE "True",
     groupId |-> 0]

Attr(g, a) == [groupName |-> g, name |-> a]

\* dict.update
Update(d, e) == [k \in DOMAIN d \cup DOMAIN e |-> IF k \in DOMAIN e THEN e[k] ELSE d[k]]

\* dict.get(k, default)
Get(d, k, default) == IF k \in DOMAIN d THEN d[k] ELSE default

DocOf(insts) ==
    [metadata |-> [height |-> 10, width |-> 20],
     instances |-> insts,
     comments |-> << [x |-> 1, y |-> 2, correspondence |-> "c", resolved |-> "False"] >>,
     tags |-> <<"t1">>]

\* the instances offered to a file of the multi-file roots
\* a document with the status and the pinned flag of its image
WithStatus(doc, status, pinned) ==
    [doc EXCEPT !.metadata = Update(doc.metadata, [status |-> status, pinned |-> pinned])]

DocA == WithStatus(DocOf(<< Instance("car", <<>>, 0), Instance("ped", <<>>, 1) >>),
                   "InProgress", "False")
DocB == WithStatus(DocOf(<< Instance("car", <<Attr("g1", "a1"), Attr("g1", "a2")>>, 3),
                            Instance(None, <<>>, 4),
                            Instance("car", <<Attr("g9", "a1")>>, 5),
                            Instance("car", <<>>, 6) >>),
                   "Completed", "True")
Docs == {DocA, DocB}

Dirs == { <<>>, <<"A">>, <<"A", "x">>, <<"B", "x">>, <<"classes">> }
Names == { <<"img1", OBJECTS>>, <<"img1", PIXEL>>, <<"img1", JSON>> }

FileSet == [dir : Dirs, name : Names, doc : Docs]

\* the attribute lists and instances offered to the single-file roots
AttrPool == { Attr("g1", "a1"), Attr("g1", "a9"), Attr("g9", "a1") }
AttrLists == { <<>> } \cup { <<a>> : a \in AttrPool }
                \cup { <<a, b>> : a \in AttrPool, b \in AttrPool }
InstKinds == { [className |-> "car", attributes |-> al] : al \in AttrLists }
               \cup { [className |-> "ped", attributes |-> <<>>],
                      [className |-> "ped", attributes |-> <<Attr("g1", "a1")>>],
                      [className |-> None, attributes |-> <<>>] }

\* one instance per branch of the type dispatch, one of a type outside it,
\* one without the type key; the geometry keys are those of the export format
Payloads ==
    { [type |-> "bbox", points |-> Geom(0)],
      [type |-> "polygon", points |-> <<0, 0, 2, 0, 2, 2>>],
      [type |-> "polyline", points |-> <<0, 0, 2, 2>>],
      [type |-> "cuboid", points |-> [f1 |-> Geom(0), r1 |-> Geom(1)]],
      [type |-> "point", x |-> 1, y |-> 2],
      [type |-> "ellipse", cx |-> 1, cy |-> 2, rx |-> 3, ry |-> 4, angle |-> 0],
      [type |-> "mask", parts |-> << [color |-> "#000001"] >>],
      [type |-> "template", connections |-> << [id |-> 1, from |-> 1, to |-> 2] >>,
       points |-> << [id |-> 1, x |-> 0, y |-> 0], [id |-> 2, x |-> 2, y |-> 2] >>],
      [type |-> "rbbox", points |-> Geom(0)],
      [parts |-> << [color |-> "#000002"] >>] }

TypedInstance(payload, attrs) ==
    Update([className |-> "car", attributes |-> attrs, locked |-> "True", groupId |-> 0],
           payload)

\* the instances offered to the typed roots: every payload without attributes,
\* a box without groupId, a point with an attribute, its author and its
\* optional fields
TypedKinds ==
    { TypedInstance(p, <<>>) : p \in Payloads }
    \cup { [className |-> "car", attributes |-> <<>>, locked |-> "False",
            type |-> "bbox", points |-> Geom(1)],
           Update(TypedInstance([type |-> "point", x |-> 3, y |-> 4], <<Attr("g1", "a1")>>),
                  [visible |-> "True", trackingId |-> "t7", error |-> "False",
                   probability |-> "90", pointLabels |-> "{0: nose}",
                   createdAt |-> "2021-05-01", creationType |-> "Manual",
                   createdBy |-> [email |-> "a@sa.com", role |-> "Annotator"],
                   updatedAt |-> "2021-05-02",
                   updatedBy |-> [email |-> "q@sa.com", role |-> "QA"]]) }

\* metadata of a file, with and without the image size
Metadatas == { [height |-> 10, width |-> 20, annotatorEmail |-> "a@sa.com",
                qaEmail |-> "q@sa.com"],
               [name |-> "img1"] }

FolderNamesNone == <<None>>
FolderNameOptions == { FolderNamesNone, <<"A">>, <<"B", "A">>, <<"A", "A">> }

\* ------------------------------------------------------------------ state
VARIABLES
    fs,                      \* the files under project_root, in listing order
    has_classes,             \* classes/classes.json is a file
    include_classes_wo_annotations, include_comments, include_tags, folder_names,
    pc,                      \* position in aggregate_image_annotations_as_df
    raised,                  \* the exception raised, or None
    class_name_to_color, class_group_name_to_values,
    annotations_paths, type_postfix,
    path_idx, inst_idx,      \* loop positions (1-based)
    image_name, annotation_instance_id,
    annotation_data,         \* the rows appended so far
    origin,                  \* per row: the path index and instance index it came from
    loaded                   \* indices of annotations_paths passed to json.load

aggVars == << fs, has_classes, include_classes_wo_annotations, include_comments,
              include_tags, folder_names, pc, raised, class_name_to_color,
              class_group_name_to_values, annotations_paths, type_postfix,
              path_idx, inst_idx, image_name, annotation_instance_id,
              annotation_data, origin, loaded >>

\* df_to_annotations called on the returned table
VARIABLES
    wpc,                     \* position in df_to_annotations
    written,                 \* the files written to output_dir
    write_raised             \* the conversion that raised, or None

writeVars == << wpc, written, write_raised >>

\* ====================================================== consensus matcher
MaxRows == 3

ImageName == "img1"
OtherImage == "img2"

\* ------------------------------------------------------------- fractions
RECURSIVE Gcd(_, _)
Gcd(a, b) == IF b = 0 THEN a ELSE Gcd(b, a % b)

Abs(n) == IF n < 0 THEN -n ELSE n

\* the fraction n/d in lowest terms, d > 0
Frac(n, d) == LET g == Gcd(Abs(n), Abs(d))
                  s == IF d < 0 THEN -1 ELSE 1
              IN << (s * n) \div g, (s * d) \div g >>

NegInf == << -1, 0 >>            \* float("-inf")
Zero == << 0, 1 >>
One == << 1, 1 >>

\* a > b on floats
Gt(a, b) == IF a = NegInf THEN FALSE
            ELSE IF b = NegInf THEN TRUE
            ELSE a[1] * b[2] > b[1] * a[2]

Le(a, b) == ~Gt(a, b)

FAdd(a, b) == Frac(a[1] * b[2] + b[1] * a[2], a[2] * b[2])

FDivInt(a, k) == Frac(a[1], a[2] * k)

\* ------------------------------------------------------------- geometry
Min(a, b) == IF a < b THEN a ELSE b
Max(a, b) == IF a > b THEN a ELSE b

\* shapely.geometry.box(minx, miny, maxx, maxy)
Box(minx, miny, maxx, maxy) ==
    [type |-> "Polygon", minx |-> minx, miny |-> miny, maxx |-> maxx, maxy |-> maxy]

\* shapely.geometry.Point(x, y)
Point(x, y) == [type |-> "Point", x |-> x, y |-> y]

\* shapely.geometry.Polygon(): the empty polygon, of area 0
EmptyPolygon ==
    [type |-> "Polygon", minx |-> 0, miny |-> 0, maxx |-> 0, maxy |-> 0, ring |-> "empty"]

\* the (x, y) pairs of a flat coordinate list (lines 579-581): a trailing odd
\* coordinate is dropped
ShapelyFormat(coords) ==
    [i \in 1..(Len(coords) \div 2) |-> << coords[2 * i - 1], coords[2 * i] >>]

\* consecutive corners, the last and the first included, share x or y
AlongEdges(pairs) ==
    \A i \in 1..Len(pairs) :
        LET a == pairs[i]
            b == pairs[(i % Len(pairs)) + 1]
        IN (a[1] = b[1]) # (a[2] = b[2])

\* what Polygon(pairs) raises for one or two pairs: a linear ring needs more
\* coordinates (ValueError)
RingError == [type |-> "ValueError"]

\* shapely.geometry.Polygon(pairs) for no pair at all, for one or two pairs,
\* or for the four corners of a rectangle: these, taken along the edges, give
\* the rectangle, and taken crosswise a ring that cuts itself
Polygon(pairs) ==
    IF pairs = << >> THEN EmptyPolygon
    ELSE IF Len(pairs) <= 2 THEN RingError
    ELSE LET xs == { pairs[i][1] : i \in 1..Len(pairs) }
             ys == { pairs[i][2] : i \in 1..Len(pairs) }
             lo(S) == CHOOSE v \in S : \A w \in S : v <= w
             hi(S) == CHOOSE v \in S : \A w \in S : v >= w
         IN IF AlongEdges(pairs) THEN Box(lo(xs), lo(ys), hi(xs), hi(ys))
            ELSE [type |-> "Polygon", minx |-> lo(xs), miny |-> lo(ys),
                  maxx |-> hi(xs), maxy |-> hi(ys), ring |-> "crossed"]

\* geometry.is_valid: the empty polygon is valid, a ring that cuts itself is
\* not, nor is a rectangle collapsed to a segment or a point
IsValid(g) ==
    IF g.type # "Polygon" THEN TRUE
    ELSE IF "ring" \in DOMAIN g THEN g.ring = "empty"
    ELSE g.minx < g.maxx /\ g.miny < g.maxy

\* geometry.area
Area(g) == IF g.type = "Polygon" THEN (g.maxx - g.minx) * (g.maxy - g.miny) ELSE 0

\* inst_1.intersection(inst_2).area for two rectangles
IntersectionArea(a, b) ==
    Max(0, Min(a.maxx, b.maxx) - Max(a.minx, b.minx))
    * Max(0, Min(a.maxy, b.maxy) - Max(a.miny, b.miny))

\* UnionArea counting the common part twice
UnionAreaSum(a, b) == Area(a) + Area(b)

\* inst_1.union(inst_2).area
UnionArea(a, b) == Area(a) + Area(b) - IntersectionArea(a, b)

\* inst_1.distance(inst_2) for two points whose distance is a whole number
Distance(a, b) ==
    LET sq == (a.x - b.x) * (a.x - b.x) + (a.y - b.y) * (a.y - b.y)
    IN CHOOSE r \in 0..sq : r * r = sq

ZeroDivision == << 0, 0 >>       \* the scorer raised ZeroDivisionError
NotImplemented == << 1, 0 >>     \* the scorer raised NotImplementedError

\* instance_consensus
instance_consensus(inst_1, inst_2) ==
    IF inst_1.type = "Polygon" /\ inst_2.type = "Polygon"
    THEN IF UnionArea(inst_1, inst_2) = 0 THEN ZeroDivision
         ELSE Frac(IntersectionArea(inst_1, inst_2), UnionArea(inst_1, inst_2))
    ELSE IF inst_1.type = "Point" /\ inst_2.type = "Point"
    THEN Frac(-1 * Distance(inst_1, inst_2), 1)
    ELSE NotImplemented

IsError(score) == score \in {ZeroDivision, NotImplemented}

\* -------------------------------------------------------------- state
VARIABLES
    df,                      \* the table handed to image_consensus
    annot_type,
    cpc,                     \* position in image_consensus
    projects_shaply_objs,    \* per folder, in insertion order: its geometry tuples
    visited_instances,
    curr_proj, curr_id,      \* the anchor (1-based positions)
    other_proj,              \* position of the inner folder loop, 0 before it starts
    max_instances,           \* the match group of the anchor
    instance_id,
    image_data,              \* the output rows
    scorer_calls,            \* every pair the scorer was invoked on so far
    cons_raised

consVars == << df, annot_type, cpc, projects_shaply_objs, visited_instances,
               curr_proj, curr_id, other_proj, max_instances, instance_id,
               image_data, scorer_calls, cons_raised >>

\* one call of instance_consensus
VARIABLES
    arg_1, arg_2,            \* the two geometries
    spc,                     \* "call" before the call, "returned" or "raised" after
    result                   \* the value returned

scoreVars == << arg_1, arg_2, spc, result >>

vars == << aggVars, consVars, writeVars, scoreVars >>

\* ------------------------------------------------------------ aggregator
\* the keys of annotation_data (lines 182-217): commentResolved and tag are
\* columns only when the comments, the tags are asked for
Columns ==
    { "imageName", "imageHeight", "imageWidth", "imageStatus", "imagePinned",
      "instanceId", "className", "attributeGroupName", "attributeName", "type",
      "error", "locked", "visible", "trackingId", "probability", "pointLabels",
      "meta", "classColor", "groupId", "createdAt", "creatorRole", "creationType",
      "creatorEmail", "updatedAt", "updatorRole", "updatorEmail", "folderName",
      "imageAnnotator", "imageQA" }
    \cup (IF include_comments THEN {"commentResolved"} ELSE {})
    \cup (IF include_tags THEN {"tag"} ELSE {})

NoneOf(k) == IF k = "instanceId" THEN NullId
             ELSE IF k \in {"imageHeight", "imageWidth", "groupId"} THEN NullId
             ELSE IF k = "meta" THEN MetaNone
             ELSE None

\* __append_annotation: one row with every column, None where the dict has no key
AppendAnnotation(d) == [k \in Columns |-> IF k \in DOMAIN d THEN d[k] ELSE NoneOf(k)]

\* __get_image_metadata
GetImageMetadata(name, annotations) ==
    [imageName |-> name,
     imageHeight |-> Get(annotations.metadata, "height", NullId),
     imageWidth |-> Get(annotations.metadata, "width", NullId),
     imageStatus |-> Get(annotations.metadata, "status", None),
     imagePinned |-> Get(annotations.metadata, "pinned", None),
     imageAnnotator |-> Get(annotations.metadata, "annotatorEmail", None),
     imageQA |-> Get(annotations.metadata, "qaEmail", None)]

\* pd.to_datetime of a time stamp string, None for None
ToDatetime(v) == IF v = None THEN None ELSE "Timestamp(" \o v \o ")"

\* annotation.get("createdBy") of an instance without the key: the empty
\* function stands for None, both are false in a test
NoDict == << >>

\* created_by.get(key) when created_by is true, else None
ByGet(by, key) == IF DOMAIN by = {} THEN None ELSE Get(by, key, None)

\* __get_user_metadata
GetUserMetadata(annotation) ==
    [createdAt |-> ToDatetime(Get(annotation, "createdAt", None)),
     creatorRole |-> ByGet(Get(annotation, "createdBy", NoDict), "role"),
     creatorEmail |-> ByGet(Get(annotation, "createdBy", NoDict), "email"),
     creationType |-> Get(annotation, "creationType", None),
     updatedAt |-> ToDatetime(Get(annotation, "updatedAt", None)),
     updatorRole |-> ByGet(Get(annotation, "updatedBy", NoDict), "role"),
     updatorEmail |-> ByGet(Get(annotation, "updatedBy", NoDict), "email")]

\* the names directories have, as tokens
DirNames == { <<"A">>, <<"B">>, <<"x">>, <<"y">>, <<"z">>, <<"classes">>,
              <<"A", JSON>>, <<"x", JSON>>, <<"A", OBJECTS>> }

\* the tokens of the name of a directory
DirName(d) == CHOOSE t \in DirNames : Concat(t) = d

\* what a directory has in the place of the decoded JSON of a file
Directory == [directory |-> TRUE]

\* classes/classes.json as a file of the listing; json.load gives the list
\* of its classes (line 226)
ClassesFile ==
    [dir |-> <<"classes">>, name |-> <<"classes", JSON>>, doc |-> [classes |-> ClassesJson]]

\* the files under the root with classes/classes.json listed after the first
\* k of them
Listing(files, k) ==
    SubSeq(files, 1, k) \o << ClassesFile >> \o SubSeq(files, k + 1, Len(files))

\* the directories on the way down to a file that are not in seen, outermost first
NewDirs(dir, seen) ==
    SelectSeq([k \in 1..Len(dir) |-> SubSeq(dir, 1, k)], LAMBDA p : p \notin seen)

\* every file and directory under the root: a directory is an entry of its
\* parent, met where the first file below it is
RECURSIVE Entries(_, _)
Entries(files, seen) ==
    IF files = <<>> THEN <<>>
    ELSE LET new == NewDirs(Head(files).dir, seen) IN
         [k \in 1..Len(new) |->
             [dir |-> SubSeq(new[k], 1, Len(new[k]) - 1),
              name |-> DirName(new[k][Len(new[k])]), doc |-> Directory]]
         \o << Head(files) >>
         \o Entries(Tail(files), seen \cup SeqToSet(new))

\* the entries of one directory, files and directories, in the order the
\* directory lists them: Path(dir).glob("*")
Children(files, dir) == SelectSeq(Entries(files, {}), LAMBDA e : e.dir = dir)

\* json_paths = list(Path(project_root).glob("*.json")): files and directories
JsonPaths(files) ==
    SelectSeq(Children(files, <<>>), LAMBDA e : IsJsonName(e.name))

\* IsDeprecatedExport looking at every root JSON file
IsDeprecatedExportAny(files) ==
    \E i \in 1..Len(JsonPaths(files)) :
        /\ ~Contains(JsonPaths(files)[i].name, PIXEL)
        /\ ~Contains(JsonPaths(files)[i].name, OBJECTS)

\* the check of json_paths[0] for a document/video export
IsDeprecatedExport(files) ==
    LET jp == JsonPaths(files) IN
    /\ jp # <<>>
    /\ ~Contains(jp[1].name, PIXEL)
    /\ ~Contains(jp[1].name, OBJECTS)

IsPrefix(p, q) == Len(p) <= Len(q) /\ SubSeq(q, 1, Len(p)) = p

\* the sequences of a sequence joined end to end
RECURSIVE ConcatAll(_)
ConcatAll(seqs) == IF seqs = <<>> THEN <<>> ELSE Head(seqs) \o ConcatAll(Tail(seqs))

\* the orders in which rglob may go through dir and the directories below
\* it: each after the one that holds it.  pathlib fixes no more: Python 3.11
\* goes depth first in listing order, 3.12 gives the directories one level
\* down before it goes deeper, 3.13 takes them off a stack, the one listed
\* last first
VisitOrders(files, dir) ==
    LET D == {dir} \cup { e.dir \o << Concat(e.name) >> :
                            e \in { d \in SeqToSet(Entries(files, {})) :
                                       d.doc = Directory /\ IsPrefix(dir, d.dir) } }
    IN
    { q \in [1..Cardinality(D) -> D] :
         \A i, j \in 1..Cardinality(D) :
            /\ i # j => q[i] # q[j]
            /\ (q[i] # q[j] /\ IsPrefix(q[i], q[j])) => i < j }

\* list(dir.rglob("*.json")): going through dir and the directories below
\* it, the files and directories of that name pattern each of them lists, in
\* the order it lists them; one list per order of going through
RGlobJson(files, dir) ==
    { ConcatAll([k \in 1..Len(q) |->
                    SelectSeq(Children(files, q[k]), LAMBDA e : IsJsonName(e.name))]) :
        q \in VisitOrders(files, dir) }

\* lines 287-292 over the entries of the root still to visit: a file is taken
\* when its suffix is .json, a directory other than classes is searched
RECURSIVE RootWalk(_, _)
RootWalk(files, rest) ==
    IF rest = <<>> THEN { <<>> }
    ELSE LET e == Head(rest)
             found == IF e.doc # Directory
                      THEN (IF HasJsonSuffix(e.name) THEN { <<e>> } ELSE { <<>> })
                      ELSE IF Concat(e.name) # "classes"
                      THEN RGlobJson(files, << Concat(e.name) >>)
                      ELSE { <<>> }
         IN { h \o t : h \in found, t \in RootWalk(files, Tail(rest)) }

RECURSIVE FoldersWalk(_, _)
FoldersWalk(files, names) ==
    IF names = <<>> THEN { <<>> }
    ELSE { h \o t : h \in RGlobJson(files, <<Head(names)>>),
                     t \in FoldersWalk(files, Tail(names)) }

\* DiscoverPaths walking the whole root whatever folder_names is
DiscoverPathsRoot(files, fnames) == RootWalk(files, Children(files, <<>>))

\* annotations_paths: the lists the walk can give
DiscoverPaths(files, fnames) ==
    IF fnames = FolderNamesNone THEN RootWalk(files, Children(files, <<>>))
    ELSE FoldersWalk(files, fnames)

\* TypePostfix taking the suffix of the first file
TypePostfixOfFirst(files) ==
    IF files # <<>> /\ EndsWithObjects(files[1].name) THEN OBJECTS ELSE PIXEL

\* type_postfix: rglob("*___objects.json") finds a file or a directory
TypePostfix(files) ==
    IF \E i \in 1..Len(Entries(files, {})) : EndsWithObjects(Entries(files, {})[i].name)
    THEN OBJECTS ELSE PIXEL

\* FolderName taking the top-level directory
FolderNameTop(f) == IF f.dir # <<>> THEN f.dir[1] ELSE None

\* folder_name of an annotation path
FolderName(f) == IF f.dir # <<>> THEN f.dir[Len(f.dir)] ELSE None

\* UnknownClass without the lookup in classes.json
UnknownClassNoneOnly(cls, colors) == cls = None

\* className is None or not in class_name_to_color
UnknownClass(cls, colors) == cls = None \/ cls \notin DOMAIN colors

\* ValidAttribute without the test of the attribute name
ValidAttributeGroupOnly(attr, groups) == attr.groupName \in DOMAIN groups

\* an attribute passes both tests against classes.json
ValidAttribute(attr, groups) ==
    /\ attr.groupName \in DOMAIN groups
    /\ attr.name \in SeqToSet(groups[attr.groupName])

\* annotation_type
AnnotationType(annotation) == Get(annotation, "type", "mask")

\* a key of the instance read with annotation[key] is missing: KeyError
MetaKeyError == [key_error |-> TRUE]

\* the keys of the instance kept in the geometry payload
Pick(annotation, keys) ==
    IF keys \subseteq DOMAIN annotation THEN [k \in keys |-> annotation[k]]
    ELSE MetaKeyError

\* AnnotationMeta with the type dispatch cut down to the {points} branch
AnnotationMetaPointsOnly(annotation) ==
    IF AnnotationType(annotation) \in {"bbox", "polygon", "polyline", "cuboid"}
    THEN Pick(annotation, {"points"})
    ELSE MetaNone

\* annotation_meta (lines 354-373)
AnnotationMeta(annotation) ==
    LET t == AnnotationType(annotation) IN
    IF t \in {"bbox", "polygon", "polyline", "cuboid"} THEN Pick(annotation, {"points"})
    ELSE IF t = "point" THEN Pick(annotation, {"x", "y"})
    ELSE IF t = "ellipse" THEN Pick(annotation, {"cx", "cy", "rx", "ry", "angle"})
    ELSE IF t = "mask" THEN Pick(annotation, {"parts"})
    ELSE IF t = "template" THEN Pick(annotation, {"connections", "points"})
    ELSE MetaNone

\* the rows one instance appends
InstanceRows(annotation, img, iid, folder, colors, groups, meta) ==
    LET base == [imageName |-> img,
                 instanceId |-> iid,
                 className |-> annotation.className,
                 type |-> AnnotationType(annotation),
                 locked |-> Get(annotation, "locked", None),
                 visible |-> Get(annotation, "visible", None),
                 trackingId |-> Get(annotation, "trackingId", None),
                 meta |-> AnnotationMeta(annotation),
                 error |-> Get(annotation, "error", None),
                 probability |-> Get(annotation, "probability", None),
                 pointLabels |-> Get(annotation, "pointLabels", None),
                 classColor |-> colors[annotation.className],
                 groupId |-> Get(annotation, "groupId", NullId),
                 folderName |-> folder]
        user == GetUserMetadata(annotation)
        attrs == annotation.attributes
        valid == SelectSeq(attrs, LAMBDA a : ValidAttribute(a, groups[annotation.className]))
    IN IF attrs = <<>>
       THEN << AppendAnnotation(Update(Update(base, user), meta)) >>
       ELSE [i \in 1..Len(valid) |->
                AppendAnnotation(Update(Update(Update(base,
                    [attributeGroupName |-> valid[i].groupName,
                     attributeName |-> valid[i].name]), user), meta))]

\* the rows added for classes and attributes without annotations
RECURSIVE WoAttrRows(_, _, _, _)
WoAttrRows(cls, group, attrs, data) ==
    IF attrs = <<>> THEN <<>>
    ELSE (IF \E i \in 1..Len(data) :
                /\ data[i].className = cls.name
                /\ data[i].attributeGroupName = group.name
                /\ data[i].attributeName = Head(attrs)
          THEN <<>>
          ELSE << AppendAnnotation([className |-> cls.name, classColor |-> cls.color,
                                    attributeGroupName |-> group.name,
                                    attributeName |-> Head(attrs)]) >>)
         \o WoAttrRows(cls, group, Tail(attrs), data)

RECURSIVE WoGroupRows(_, _, _)
WoGroupRows(cls, groups, data) ==
    IF groups = <<>> THEN <<>>
    ELSE WoAttrRows(cls, Head(groups), Head(groups).attributes, data)
         \o WoGroupRows(cls, Tail(groups), data)

\* NeverAnnotated taking every class as annotated
NeverAnnotatedNone(cls, data) == FALSE

\* line 462: the class name is not among the className values of the table
NeverAnnotated(cls, data) == \A i \in 1..Len(data) : data[i].className # cls.name

\* lines 458-497: a class without rows gets its class row and the loop moves
\* on to the next class, a class with rows gets a row per attribute not seen
RECURSIVE WoClassRows(_, _)
WoClassRows(cj, data) ==
    IF cj = <<>> THEN <<>>
    ELSE (IF NeverAnnotated(Head(cj), data)
          THEN << AppendAnnotation([className |-> Head(cj).name,
                                    classColor |-> Head(cj).color]) >>
          ELSE WoGroupRows(Head(cj), Head(cj).attribute_groups, data))
         \o WoClassRows(Tail(cj), data)

NoOrigin == [path |-> 0, inst |-> 0]

\* lines 172-178
CheckDeprecated ==
    /\ pc = "start"
    /\ IF IsDeprecatedExport(fs)
       THEN pc' = "raised" /\ raised' = "deprecated"
       ELSE pc' = "classes" /\ raised' = raised
    /\ UNCHANGED << consVars, writeVars, scoreVars >>
    /\ UNCHANGED << fs, has_classes, include_classes_wo_annotations, include_comments,
                    include_tags, folder_names, class_name_to_color,
                    class_group_name_to_values, annotations_paths, type_postfix,
                    path_idx, inst_idx, image_name, annotation_instance_id,
                    annotation_data, origin, loaded >>

\* LoadClasses without the test that the classes file exists
LoadClassesUnchecked ==
    /\ pc = "classes"
    /\ pc' = "discover" /\ raised' = raised
    /\ class_name_to_color' = ClassNameToColor(ClassesJson)
    /\ class_group_name_to_values' = ClassGroupNameToValues(ClassesJson)
    /\ UNCHANGED << consVars, writeVars, scoreVars >>
    /\ UNCHANGED << fs, has_classes, include_classes_wo_annotations, include_comments,
                    include_tags, folder_names, annotations_paths, type_postfix,
                    path_idx, inst_idx, image_name, annotation_instance_id,
                    annotation_data, origin, loaded >>

\* lines 219-239
LoadClasses ==
    /\ pc = "classes"
    /\ IF ~has_classes
       THEN /\ pc' = "raised" /\ raised' = "classes_not_found"
            /\ UNCHANGED << class_name_to_color, class_group_name_to_values >>
       ELSE /\ pc' = "discover" /\ raised' = raised
            /\ class_name_to_color' = ClassNameToColor(ClassesJson)
            /\ class_group_name_to_values' = ClassGroupNameToValues(ClassesJson)
    /\ UNCHANGED << consVars, writeVars, scoreVars >>
    /\ UNCHANGED << fs, has_classes, include_classes_wo_annotations, include_comments,
                    include_tags, folder_names, annotations_paths, type_postfix,
                    path_idx, inst_idx, image_name, annotation_instance_id,
                    annotation_data, origin, loaded >>

\* lines 286-306; classes/classes.json, which line 226 has read, is a file
\* of the tree and the listing has it at any place
Discover ==
    /\ pc = "discover"
    /\ \E k \in 0..Len(fs) :
          annotations_paths' \in DiscoverPaths(Listing(fs, k), folder_names)
    /\ type_postfix' = TypePostfix(fs)
    /\ path_idx' = 1
    /\ pc' = "files"
    /\ UNCHANGED << consVars, writeVars, scoreVars >>
    /\ UNCHANGED << fs, has_classes, include_classes_wo_annotations, include_comments,
                    include_tags, folder_names, raised, class_name_to_color,
                    class_group_name_to_values, inst_idx, image_name,
                    annotation_instance_id, annotation_data, origin, loaded >>

\* line 308: open() of a path that is a directory raises IsADirectoryError
OpenDirectory ==
    /\ pc = "files"
    /\ path_idx <= Len(annotations_paths)
    /\ annotations_paths[path_idx].doc = Directory
    /\ pc' = "raised"
    /\ raised' = "IsADirectoryError"
    /\ UNCHANGED << consVars, writeVars, scoreVars >>
    /\ UNCHANGED << fs, has_classes, include_classes_wo_annotations, include_comments,
                    include_tags, folder_names, class_name_to_color,
                    class_group_name_to_values, annotations_paths, type_postfix,
                    path_idx, inst_idx, image_name, annotation_instance_id,
                    annotation_data, origin, loaded >>

\* lines 307-311: a file whose name does not split in two is loaded and left
SkipFile ==
    /\ pc = "files"
    /\ path_idx <= Len(annotations_paths)
    /\ annotations_paths[path_idx].doc # Directory
    /\ Len(Split(annotations_paths[path_idx].name, type_postfix)) # 2
    /\ loaded' = loaded \cup {path_idx}
    /\ path_idx' = path_idx + 1
    /\ UNCHANGED << consVars, writeVars, scoreVars >>
    /\ UNCHANGED << fs, has_classes, include_classes_wo_annotations, include_comments,
                    include_tags, folder_names, pc, raised, class_name_to_color,
                    class_group_name_to_values, annotations_paths, type_postfix,
                    inst_idx, image_name, annotation_instance_id, annotation_data,
                    origin >>

\* the comment rows of a file (lines 315-331)
CommentRows(doc, meta) ==
    [i \in 1..Len(doc.comments) |->
        AppendAnnotation(Update(Update(
            [type |-> "comment",
             meta |-> [x |-> doc.comments[i].x, y |-> doc.comments[i].y,
                       comments |-> doc.comments[i].correspondence],
             commentResolved |-> doc.comments[i].resolved],
            GetUserMetadata(doc.comments[i])), meta))]

\* the tag rows of a file (lines 332-336)
TagRows(doc, meta) ==
    [i \in 1..Len(doc.tags) |->
        AppendAnnotation(Update([type |-> "tag", tag |-> doc.tags[i]], meta))]

\* lines 307-336: the file is loaded, its image name and metadata are taken,
\* the comment and tag rows are appended
OpenFile ==
    /\ pc = "files"
    /\ path_idx <= Len(annotations_paths)
    /\ annotations_paths[path_idx].doc # Directory
    /\ LET f == annotations_paths[path_idx]
           parts == Split(f.name, type_postfix)
           meta == GetImageMetadata(Concat(parts[1]), f.doc)
           added == (IF include_comments THEN CommentRows(f.doc, meta) ELSE <<>>)
                    \o (IF include_tags THEN TagRows(f.doc, meta) ELSE <<>>)
       IN /\ Len(parts) = 2
          /\ image_name' = Concat(parts[1])
          /\ annotation_data' = annotation_data \o added
          /\ origin' = origin \o [i \in 1..Len(added) |-> [path |-> path_idx, inst |-> 0]]
    /\ loaded' = loaded \cup {path_idx}
    /\ annotation_instance_id' = 0
    /\ inst_idx' = 1
    /\ pc' = "instances"
    /\ UNCHANGED << consVars, writeVars, scoreVars >>
    /\ UNCHANGED << fs, has_classes, include_classes_wo_annotations, include_comments,
                    include_tags, folder_names, raised, class_name_to_color,
                    class_group_name_to_values, annotations_paths, type_postfix,
                    path_idx >>

\* NextInstanceId without the increment
NextInstanceIdKept(id, num_added) == id

\* NextInstanceId counting the instances that appended no row as well
NextInstanceIdAlways(id, num_added) == id + 1

\* annotation_instance_id after an instance that appended num_added rows
NextInstanceId(id, num_added) == IF num_added > 0 THEN id + 1 ELSE id

\* lines 337-452: one instance of the open file
ProcessInstance ==
    /\ pc = "instances"
    /\ inst_idx <= Len(annotations_paths[path_idx].doc.instances)
    /\ LET f == annotations_paths[path_idx]
           annotation == f.doc.instances[inst_idx]
           skip == UnknownClass(annotation.className, class_name_to_color)
           rows == IF skip THEN <<>>
                   ELSE InstanceRows(annotation, image_name, annotation_instance_id,
                                     FolderName(f), class_name_to_color,
                                     class_group_name_to_values,
                                     GetImageMetadata(image_name, f.doc))
       IN IF ~skip /\ (\/ annotation.className \notin DOMAIN class_name_to_color
                       \/ AnnotationMeta(annotation) = MetaKeyError)
          THEN \* class_name_to_color[...] or annotation[...] raises KeyError
               /\ pc' = "raised"
               /\ raised' = "KeyError"
               /\ UNCHANGED << annotation_data, origin, annotation_instance_id, inst_idx >>
          ELSE /\ annotation_data' = annotation_data \o rows
               /\ origin' = origin \o [i \in 1..Len(rows) |->
                                          [path |-> path_idx, inst |-> inst_idx]]
               /\ annotation_instance_id' = NextInstanceId(annotation_instance_id, Len(rows))
               /\ inst_idx' = inst_idx + 1
               /\ UNCHANGED << pc, raised >>
    /\ UNCHANGED << consVars, writeVars, scoreVars >>
    /\ UNCHANGED << fs, has_classes, include_classes_wo_annotations, include_comments,
                    include_tags, folder_names, class_name_to_color,
                    class_group_name_to_values, annotations_paths, type_postfix,
                    path_idx, image_name, loaded >>

\* the instance loop of a file ends, the file loop goes on
CloseFile ==
    /\ pc = "instances"
    /\ inst_idx > Len(annotations_paths[path_idx].doc.instances)
    /\ path_idx' = path_idx + 1
    /\ pc' = "files"
    /\ UNCHANGED << consVars, writeVars, scoreVars >>
    /\ UNCHANGED << fs, has_classes, include_classes_wo_annotations, include_comments,
                    include_tags, folder_names, raised, class_name_to_color,
                    class_group_name_to_values, annotations_paths, type_postfix,
                    inst_idx, image_name, annotation_instance_id, annotation_data,
                    origin, loaded >>

\* float("nan")
NaN == "nan"

\* df.astype({"probability": float}) (line 501): None becomes NaN, a whole
\* number, kept as its literal, becomes the float of that value
AsFloat(table) ==
    [i \in 1..Len(table) |->
        [table[i] EXCEPT !.probability = IF @ = None THEN NaN ELSE @ \o ".0"]]

\* pandas.NaT
NaT == "NaT"

\* pd.DataFrame(annotation_data) (lines 454 and 499) on a column of time
\* stamps: once one cell holds a time stamp the null cells are NaT
AsDatetime(table, col) ==
    IF \E i \in 1..Len(table) : table[i][col] # None
    THEN [i \in 1..Len(table) |->
             [table[i] EXCEPT ![col] = IF @ = None THEN NaT ELSE @]]
    ELSE table

\* lines 454-503: the rows for classes without annotations, the table is returned
Finish ==
    /\ pc = "files"
    /\ path_idx > Len(annotations_paths)
    /\ LET added == IF include_classes_wo_annotations
                    THEN WoClassRows(ClassesJson, annotation_data) ELSE <<>>
       IN /\ annotation_data' =
                AsFloat(AsDatetime(AsDatetime(annotation_data \o added, "createdAt"),
                                   "updatedAt"))
          /\ origin' = origin \o [i \in 1..Len(added) |-> NoOrigin]
    /\ pc' = "done"
    /\ UNCHANGED << consVars, writeVars, scoreVars >>
    /\ UNCHANGED << fs, has_classes, include_classes_wo_annotations, include_comments,
                    include_tags, folder_names, raised, class_name_to_color,
                    class_group_name_to_values, annotations_paths, type_postfix,
                    path_idx, inst_idx, image_name, annotation_instance_id, loaded >>

\* ------------------------------------------------------- df_to_annotations
\* the values of a sequence in the order they are first met
RECURSIVE Unique(_, _)
Unique(q, seen) ==
    IF q = <<>> THEN <<>>
    ELSE IF Head(q) \in seen THEN Unique(Tail(q), seen)
    ELSE << Head(q) >> \o Unique(Tail(q), seen \cup {Head(q)})

\* df[col].dropna().unique()
DropNaUnique(table, col) ==
    Unique(SelectSeq([i \in 1..Len(table) |-> table[i][col]],
                     LAMBDA v : v # NoneOf(col)), {})

\* a numeric column holding both numbers and None is a float column: its
\* null cells are NaN, which is true in a boolean test
HasNaN(table, col) ==
    /\ \E i \in 1..Len(table) : table[i][col] = NullId
    /\ \E i \in 1..Len(table) : table[i][col] # NullId

\* bool(v) of a numeric cell
Truthy(v, nan) == IF v = NullId THEN nan ELSE v # 0

\* x = None, then x = x or v over the first rows of the instances: the first
\* true value, else the last value, else None
RECURSIVE FirstTruthy(_, _)
FirstTruthy(vals, nan) ==
    IF vals = <<>> THEN NullId
    ELSE IF Len(vals) = 1 \/ Truthy(Head(vals), nan) THEN Head(vals)
    ELSE FirstTruthy(Tail(vals), nan)

\* bool(v) of a cell of a column of strings or flags
TruthyCell(v) == v \notin {None, "False", ""}

\* FirstTrue stopping at the first value whatever it is
FirstTrueHead(vals) == IF vals = <<>> THEN None ELSE Head(vals)

\* x = None, then x = x or v over the first rows of the instances, for a
\* column of strings or flags (lines 73-74)
RECURSIVE FirstTrue(_)
FirstTrue(vals) ==
    IF vals = <<>> THEN None
    ELSE IF Len(vals) = 1 \/ TruthyCell(Head(vals)) THEN Head(vals)
    ELSE FirstTrue(Tail(vals))

\* bool(value) of a locked cell
Bool(v) == IF v = "True" THEN "True" ELSE "False"

\* RowAttributes reading the rows of the folder of the first row only
RowAttributesOwnFolder(instance_df) ==
    LET with == SelectSeq(instance_df, LAMBDA r : /\ r.attributeGroupName # None
                                                  /\ r.folderName = instance_df[1].folderName)
    IN [i \in 1..Len(with) |->
           [groupName |-> with[i].attributeGroupName, name |-> with[i].attributeName]]

\* the attributes of an instance: one per row with an attribute group
RowAttributes(instance_df) ==
    LET with == SelectSeq(instance_df, LAMBDA r : r.attributeGroupName # None)
    IN [i \in 1..Len(with) |->
           [groupName |-> with[i].attributeGroupName, name |-> with[i].attributeName]]

\* InstanceAnnotation without the update by the meta of the first row
InstanceAnnotationNoMeta(instance_df) ==
    [className |-> instance_df[1].className,
     type |-> instance_df[1].type,
     attributes |-> RowAttributes(instance_df),
     probability |-> instance_df[1].probability,
     error |-> instance_df[1].error,
     pointLabels |-> IF instance_df[1].pointLabels = None THEN << >>
                     ELSE instance_df[1].pointLabels,
     locked |-> Bool(instance_df[1].locked),
     visible |-> Bool(instance_df[1].visible),
     trackingId |-> instance_df[1].trackingId,
     groupId |-> instance_df[1].groupId]

\* instance_annotation (lines 43-69): the fields of the first row, the keys
\* of its meta, the attributes of every row
InstanceAnnotation(instance_df) ==
    Update([className |-> instance_df[1].className,
            type |-> instance_df[1].type,
            attributes |-> RowAttributes(instance_df),
            probability |-> instance_df[1].probability,
            error |-> instance_df[1].error,
            pointLabels |-> IF instance_df[1].pointLabels = None THEN << >>
                            ELSE instance_df[1].pointLabels,
            locked |-> Bool(instance_df[1].locked),
            visible |-> Bool(instance_df[1].visible),
            trackingId |-> instance_df[1].trackingId,
            groupId |-> instance_df[1].groupId],
           instance_df[1].meta)

\* what stops the conversion of an instance: int(groupId) of a null cell
\* (line 60, TypeError on None and ValueError on NaN), update(None) (line 61)
InstanceError(instance_df) ==
    IF instance_df[1].groupId = NullId THEN "groupId"
    ELSE IF instance_df[1].meta = MetaNone THEN "meta"
    ELSE None

\* the first error among the instances, None when there is none
RECURSIVE FirstError(_)
FirstError(errs) ==
    IF errs = <<>> THEN None
    ELSE IF Head(errs) # None THEN Head(errs) ELSE FirstError(Tail(errs))

\* every cell of the column is a boolean: the column is of dtype bool and
\* iloc[0][col] is a numpy.bool_, which json.dump does not encode
AllBool(table, col) ==
    /\ table # << >>
    /\ \A i \in 1..Len(table) : table[i][col] \in {"True", "False"}

\* lines 76-83
CommentJson(row) ==
    [x |-> row.meta.x, y |-> row.meta.y, correspondence |-> row.meta.comments,
     resolved |-> row.commentResolved]

\* lines 33-94: the annotation of one image, or the error that stops it
ImageAnnotation(image, table) ==
    LET image_df == SelectSeq(table, LAMBDA r : r.imageName = image)
        instances == DropNaUnique(image_df, "instanceId")
        dfs == [k \in 1..Len(instances) |->
                   SelectSeq(image_df, LAMBDA r : r.instanceId = instances[k])]
        err == FirstError([k \in 1..Len(dfs) |-> InstanceError(dfs[k])])
        image_width == FirstTruthy([k \in 1..Len(dfs) |-> dfs[k][1].imageWidth],
                                   HasNaN(table, "imageWidth"))
        image_height == FirstTruthy([k \in 1..Len(dfs) |-> dfs[k][1].imageHeight],
                                    HasNaN(table, "imageHeight"))
        image_pinned == FirstTrue([k \in 1..Len(dfs) |-> dfs[k][1].imagePinned])
        image_status == FirstTrue([k \in 1..Len(dfs) |-> dfs[k][1].imageStatus])
        comments == SelectSeq(image_df, LAMBDA r : r.type = "comment")
        tags == SelectSeq(image_df, LAMBDA r : r.type = "tag")
    IN IF err # None THEN [error |-> err]
       ELSE IF image_width = NullId \/ image_height = NullId
       THEN [error |-> "metadata"]          \* int(None) or int(NaN), lines 90-91
       ELSE IF dfs # << >> /\ AllBool(table, "error")
       THEN [error |-> "json.dump"]         \* TypeError of line 95 at the error key
       ELSE [error |-> None,
             doc |-> [instances |-> [k \in 1..Len(dfs) |-> InstanceAnnotation(dfs[k])],
                      metadata |-> [width |-> image_width, height |-> image_height,
                                    status |-> image_status,
                                    pinned |-> Bool(image_pinned)],
                      tags |-> [k \in 1..Len(tags) |-> tags[k].tag],
                      comments |->
                          [k \in 1..Len(comments) |-> CommentJson(comments[k])]]]

\* annotation_classes (lines 101-131)
AnnotationClasses(table) ==
    LET named == SelectSeq(table, LAMBDA r : r.className # None)
        names == Unique([i \in 1..Len(named) |-> named[i].className], {})
        full(c) == SelectSeq(named, LAMBDA r : /\ r.className = c
                                               /\ r.attributeGroupName # None
                                               /\ r.attributeName # None)
        groups(c) == Unique([i \in 1..Len(full(c)) |-> full(c)[i].attributeGroupName], {})
        attrs(c, g) ==
            LET rows == SelectSeq(full(c), LAMBDA r : r.attributeGroupName = g)
            IN Unique([i \in 1..Len(rows) |-> rows[i].attributeName], {})
    IN [i \in 1..Len(names) |->
           [name |-> names[i],
            color |-> named[CHOOSE r \in 1..Len(named) :
                               /\ named[r].className = names[i]
                               /\ \A q \in 1..(r - 1) : named[q].className # names[i]
                           ].classColor,
            attribute_groups |->
               [j \in 1..Len(groups(names[i])) |->
                   [name |-> groups(names[i])[j],
                    attributes |->
                       [k \in 1..Len(attrs(names[i], groups(names[i])[j])) |->
                           [name |-> attrs(names[i], groups(names[i])[j])[k]]]]]]]

\* the number of leading images converted before the first error
RECURSIVE Leading(_)
Leading(docs) ==
    IF docs = <<>> \/ Head(docs).error # None THEN 0 ELSE 1 + Leading(Tail(docs))

\* df_to_annotations on the table the aggregator returned: a file per image
\* in the order the images are first met, then classes/classes.json; an error
\* leaves the files written before it, and of the file json.dump was writing
\* (opened with "w") a part of the document, up to nothing
DfToAnnotations ==
    /\ pc = "done" /\ wpc = "idle"
    /\ LET images == DropNaUnique(annotation_data, "imageName")
           docs == [k \in 1..Len(images) |-> ImageAnnotation(images[k], annotation_data)]
           n == Leading(docs)
           files == [k \in 1..n |-> [name |-> << images[k], OBJECTS >>, doc |-> docs[k].doc]]
       IN IF n = Len(images)
          THEN /\ written' = Append(files, [name |-> << "classes/classes", JSON >>,
                                            doc |-> AnnotationClasses(annotation_data)])
               /\ wpc' = "written"
               /\ write_raised' = None
          ELSE /\ written' =
                     files \o (IF docs[n + 1].error = "json.dump"
                               THEN << [name |-> << images[n + 1], OBJECTS >>,
                                        doc |-> [truncated |-> TRUE]] >>
                               ELSE << >>)
               /\ wpc' = "raised"
               /\ write_raised' = docs[n + 1].error
    /\ UNCHANGED << aggVars, consVars, scoreVars >>

\* df_to_annotations has not been called
WriteIdle == wpc = "idle" /\ written = << >> /\ write_raised = None

\* instance_consensus is not called on its own
ScoreIdle == arg_1 = None /\ arg_2 = None /\ spc = "idle" /\ result = None

\* image_consensus is not running
ConsIdle ==
    /\ df = << >>
    /\ annot_type = None
    /\ cpc = "idle"
    /\ projects_shaply_objs = << >>
    /\ visited_instances = << >>
    /\ curr_proj = 0
    /\ curr_id = 0
    /\ other_proj = 0
    /\ max_instances = << >>
    /\ instance_id = 0
    /\ image_data = << >>
    /\ scorer_calls = {}
    /\ cons_raised = None

\* ------------------------------------------------------------ initial states
DistinctPaths(files) ==
    \A i, j \in 1..Len(files) :
        i # j => (files[i].dir # files[j].dir \/ files[i].name # files[j].name)

SeqsUpTo(S, n) == UNION { [1..k -> S] : k \in 0..n }

AggStart ==
    /\ pc = "start"
    /\ raised = None
    /\ class_name_to_color = << >>
    /\ class_group_name_to_values = << >>
    /\ annotations_paths = << >>
    /\ type_postfix = None
    /\ path_idx = 0
    /\ inst_idx = 0
    /\ image_name = None
    /\ annotation_instance_id = 0
    /\ annotation_data = << >>
    /\ origin = << >>
    /\ loaded = {}
    /\ ConsIdle
    /\ WriteIdle
    /\ ScoreIdle

\* export roots of up to MaxFiles files in root, folders and nested folders
InitCorpus ==
    /\ fs \in { s \in SeqsUpTo(FileSet, MaxFiles) : DistinctPaths(s) }
    /\ has_classes \in BOOLEAN
    /\ include_classes_wo_annotations \in BOOLEAN
    /\ include_comments = FALSE
    /\ include_tags = FALSE
    /\ folder_names \in FolderNameOptions
    /\ AggStart

\* one file with every list of up to MaxInst instances, every flag setting
InitSingle ==
    /\ \E insts \in SeqsUpTo(InstKinds, MaxInst) :
          fs = << [dir |-> <<"A">>, name |-> <<"img1", OBJECTS>>,
                   doc |-> DocOf([i \in 1..Len(insts) |->
                              Instance(insts[i].className, insts[i].attributes, i)])] >>
    /\ has_classes = TRUE
    /\ include_classes_wo_annotations \in BOOLEAN
    /\ include_comments \in BOOLEAN
    /\ include_tags \in BOOLEAN
    /\ folder_names = FolderNamesNone
    /\ AggStart

\* one file whose instances are drawn from every type of the dispatch
InitTyped ==
    /\ \E insts \in SeqsUpTo(TypedKinds, MaxInst) : \E md \in Metadatas :
          fs = << [dir |-> <<"A">>, name |-> <<"img1", OBJECTS>>,
                   doc |-> [DocOf(insts) EXCEPT !.metadata = md]] >>
    /\ has_classes = TRUE
    /\ include_classes_wo_annotations = FALSE
    /\ include_comments \in BOOLEAN
    /\ include_tags = FALSE
    /\ folder_names = FolderNamesNone
    /\ AggStart

\* directories named like JSON files, a directory two levels below a folder
\* beside one a level below it, and a file named ".json", in export roots of
\* up to MaxFiles files
OddDirs == { <<>>, <<"A">>, <<"A", "x", "z">>, <<"A", "y">>, <<"classes">>, <<"A.json">>,
             <<"A___objects.json">>, <<"A", "x.json">> }
OddNames == { <<"img1", OBJECTS>>, <<"img1", PIXEL>>, <<JSON>> }

InitOddNames ==
    /\ fs \in { s \in SeqsUpTo([dir : OddDirs, name : OddNames, doc : {DocA}], MaxFiles) :
                   DistinctPaths(s) }
    /\ has_classes = TRUE
    /\ include_classes_wo_annotations = FALSE
    /\ include_comments = FALSE
    /\ include_tags = FALSE
    /\ folder_names \in { FolderNamesNone, <<"A">>, <<"classes">> }
    /\ AggStart

\* two files of one image name, in the root and in folder A, the second with
\* instances the first has not, each with its own width and height: one of
\* two sizes, zeros, or none
InitSizes ==
    /\ \E m1, m2 \in { [height |-> 10, width |-> 20], [height |-> 15, width |-> 30],
                       [height |-> 0, width |-> 0], << >> } :
          fs = << [dir |-> <<>>, name |-> <<"img1", OBJECTS>>,
                   doc |-> [DocA EXCEPT !.metadata =
                               Update(m1, [status |-> "", pinned |-> "False"])]],
                  [dir |-> <<"A">>, name |-> <<"img1", OBJECTS>>,
                   doc |-> [DocB EXCEPT !.metadata =
                               Update(m2, [status |-> "Completed", pinned |-> "True"])]] >>
    /\ has_classes = TRUE
    /\ include_classes_wo_annotations = FALSE
    /\ include_comments = FALSE
    /\ include_tags = FALSE
    /\ folder_names = FolderNamesNone
    /\ AggStart

Init == InitCorpus \/ InitSingle \/ InitTyped \/ InitOddNames \/ InitSizes

Next ==
    \/ CheckDeprecated
    \/ LoadClasses
    \/ Discover
    \/ OpenDirectory
    \/ SkipFile
    \/ OpenFile
    \/ ProcessInstance
    \/ CloseFile
    \/ Finish
    \/ DfToAnnotations

Spec == Init /\ [][Next]_vars

\* ------------------------------------------------------ image_consensus
\* the local name inst when no branch of lines 571-584 has bound it
Unbound == [type |-> "unbound"]

\* Shape taking the corners of a box as they come
ShapeUnordered(meta, atype) ==
    IF atype = "bbox"
    THEN Box(meta.points.x1, meta.points.y1, meta.points.x2, meta.points.y2)
    ELSE IF atype = "polygon" THEN Polygon(ShapelyFormat(meta.points))
    ELSE IF atype = "point" THEN Point(meta.x, meta.y)
    ELSE Unbound

\* the geometry of a row (lines 571-584); for any other annot_type no branch
\* is taken and inst stays unbound
Shape(meta, atype) ==
    IF atype = "bbox"
    THEN Box(Min(meta.points.x1, meta.points.x2), Min(meta.points.y1, meta.points.y2),
             Max(meta.points.x1, meta.points.x2), Max(meta.points.y1, meta.points.y2))
    ELSE IF atype = "polygon" THEN Polygon(ShapelyFormat(meta.points))
    ELSE IF atype = "point" THEN Point(meta.x, meta.y)
    ELSE Unbound

\* ImageDf keeping the rows of every image
ImageDfWholeTable(table, img) == table

\* image_df
ImageDf(table, img) == SelectSeq(table, LAMBDA r : r.imageName = img)

\* AllProjects counting the folders of the image only
AllProjectsOfImage(table) ==
    Cardinality({ table[i].folderName : i \in { j \in 1..Len(table) :
                                                  table[j].imageName = ImageName } })

\* len(all_projects)
AllProjects(table) == Cardinality({ table[i].folderName : i \in 1..Len(table) })

\* the folders of image_df in the order they are first met
RECURSIVE FolderOrder(_, _)
FolderOrder(rows, seen) ==
    IF rows = <<>> THEN <<>>
    ELSE IF Head(rows).folderName \in seen THEN FolderOrder(Tail(rows), seen)
    ELSE << Head(rows).folderName >>
         \o FolderOrder(Tail(rows), seen \cup {Head(rows).folderName})

\* the tuple kept for a row
ObjTuple(r, atype) ==
    [inst |-> Shape(r.meta, atype), className |-> r.className,
     creatorEmail |-> r.creatorEmail, attributes |-> r.attributes]

\* projects_shaply_objs (lines 566-592): per folder the tuples of its valid rows
ProjectsShaplyObjs(rows, atype) ==
    LET order == FolderOrder(rows, {}) IN
    [p \in 1..Len(order) |->
        [proj |-> order[p],
         instances |->
            LET mine == SelectSeq(rows, LAMBDA r : r.folderName = order[p]
                                                   /\ IsValid(Shape(r.meta, atype)))
            IN [i \in 1..Len(mine) |-> ObjTuple(mine[i], atype)]]]

\* InitialMaxScore starting from minus infinity for every type
InitialMaxScoreNegInf(atype) == NegInf

\* max_score before a folder is searched (lines 609-612)
InitialMaxScore(atype) == IF atype \in {"polygon", "bbox"} THEN Zero ELSE NegInf

\* Better without the className test
BetterAnyClass(score, max_score, other_class, curr_class) == Gt(score, max_score)

\* the candidate test of line 620
Better(score, max_score, other_class, curr_class) ==
    Gt(score, max_score) /\ other_class = curr_class

\* SearchFolder without the test of the visited flag
RECURSIVE SearchFolderAll(_, _, _, _, _, _)
SearchFolderAll(curr, others, vis, k, max_score, max_inst_id) ==
    IF k > Len(others) THEN max_inst_id
    ELSE LET score == instance_consensus(curr.inst, others[k].inst) IN
         IF Better(score, max_score, others[k].className, curr.className)
         THEN SearchFolderAll(curr, others, vis, k + 1, score, k)
         ELSE SearchFolderAll(curr, others, vis, k + 1, max_score, max_inst_id)

\* the search of one other folder (lines 613-623): the position of the best
\* unvisited candidate, 0 when there is none
RECURSIVE SearchFolder(_, _, _, _, _, _)
SearchFolder(curr, others, vis, k, max_score, max_inst_id) ==
    IF k > Len(others) THEN max_inst_id
    ELSE IF vis[k] THEN SearchFolder(curr, others, vis, k + 1, max_score, max_inst_id)
    ELSE LET score == instance_consensus(curr.inst, others[k].inst) IN
         IF Better(score, max_score, others[k].className, curr.className)
         THEN SearchFolder(curr, others, vis, k + 1, score, k)
         ELSE SearchFolder(curr, others, vis, k + 1, max_score, max_inst_id)

\* the pairs handed to the scorer while a folder is searched (line 619): the
\* unvisited candidates in their order, up to the first call that raises
SearchCalls(curr, others, vis) ==
    { [phase |-> "match", class_1 |-> curr.className, class_2 |-> others[k].className,
       inst_1 |-> curr.inst, inst_2 |-> others[k].inst,
       score |-> instance_consensus(curr.inst, others[k].inst)] :
        k \in { j \in 1..Len(others) :
                  /\ ~vis[j]
                  /\ \A i \in 1..(j - 1) :
                        vis[i] \/ ~IsError(instance_consensus(curr.inst, others[i].inst)) } }

\* Contribution without the replacement of a score of 0 or less
ContributionRaw(score) == score

\* the share of one other member in proj_cons (line 644)
Contribution(score) == IF Le(score, Zero) THEN One ELSE score

\* ProjCons without the test that the other member is of another folder
RECURSIVE ProjConsWithSelf(_, _, _)
ProjConsWithSelf(m, group, k) ==
    IF k > Len(group) THEN Zero
    ELSE FAdd(Contribution(instance_consensus(m.inst, group[k].inst)),
              ProjConsWithSelf(m, group, k + 1))

\* proj_cons of a member (lines 638-644)
RECURSIVE ProjCons(_, _, _)
ProjCons(m, group, k) ==
    IF k > Len(group) THEN Zero
    ELSE IF group[k].proj # m.proj
         THEN FAdd(Contribution(instance_consensus(m.inst, group[k].inst)),
                   ProjCons(m, group, k + 1))
         ELSE ProjCons(m, group, k + 1)

\* the pairs of members of different folders, scored in the order of the two
\* loops of lines 637-639
ScorePairs(group) ==
    { q \in (1..Len(group)) \X (1..Len(group)) : group[q[1]].proj # group[q[2]].proj }

\* the pairs handed to the scorer while a group is scored (line 641), up to
\* the first call that raises
ScoreCalls(group) ==
    { [phase |-> "score", class_1 |-> group[i].className, class_2 |-> group[j].className,
       inst_1 |-> group[i].inst, inst_2 |-> group[j].inst,
       score |-> instance_consensus(group[i].inst, group[j].inst)] :
        <<i, j>> \in { q \in ScorePairs(group) :
                          \A e \in ScorePairs(group) :
                              (e[1] < q[1] \/ (e[1] = q[1] /\ e[2] < q[2])) =>
                                  ~IsError(instance_consensus(group[e[1]].inst,
                                                              group[e[2]].inst)) } }

OutRow(m, id, score) ==
    [creatorEmail |-> m.creatorEmail, attributes |-> m.attributes,
     area |-> Area(m.inst), imageName |-> ImageName, instanceId |-> id,
     className |-> m.className, folderName |-> m.proj, score |-> score]

\* GroupRows giving a lone member the score 1
GroupRowsLoneOne(group, id, nproj) ==
    IF Len(group) = 1 THEN << OutRow(group[1], id, One) >>
    ELSE [i \in 1..Len(group) |->
             OutRow(group[i], id, FDivInt(ProjCons(group[i], group, 1), nproj - 1))]

\* the rows of a match group (lines 627-652)
GroupRows(group, id, nproj) ==
    IF Len(group) = 1 THEN << OutRow(group[1], id, Zero) >>
    ELSE [i \in 1..Len(group) |->
             OutRow(group[i], id, FDivInt(ProjCons(group[i], group, 1), nproj - 1))]

Member(proj, t) ==
    [proj |-> proj, inst |-> t.inst, className |-> t.className,
     creatorEmail |-> t.creatorEmail, attributes |-> t.attributes]

\* lines 549-595
BuildObjects ==
    /\ cpc = "build"
    /\ LET image_df == ImageDf(df, ImageName) IN
       IF \E i \in 1..Len(image_df) :
             Shape(image_df[i].meta, annot_type) \in {Unbound, RingError}
       THEN \* inst.is_valid of line 585 reads a name that was never bound, or
            \* Polygon(...) of line 582 raises
            /\ cpc' = "raised"
            /\ cons_raised' = IF annot_type = "polygon" THEN "ValueError"
                              ELSE "UnboundLocalError"
            /\ UNCHANGED << projects_shaply_objs, visited_instances, instance_id,
                            image_data, curr_proj, curr_id, other_proj >>
       ELSE /\ projects_shaply_objs' = ProjectsShaplyObjs(image_df, annot_type)
            /\ visited_instances' =
                  [p \in 1..Len(projects_shaply_objs') |->
                      [i \in 1..Len(projects_shaply_objs'[p].instances) |-> FALSE]]
            /\ instance_id' = 0
            /\ image_data' = << >>
            /\ curr_proj' = 1
            /\ curr_id' = 1
            /\ other_proj' = 0
            /\ cpc' = "match"
            /\ UNCHANGED cons_raised
    /\ UNCHANGED << df, annot_type, max_instances, scorer_calls >>
    /\ UNCHANGED << aggVars, writeVars, scoreVars >>

AtAnchor ==
    /\ cpc = "match"
    /\ other_proj = 0
    /\ curr_proj <= Len(projects_shaply_objs)
    /\ curr_id <= Len(projects_shaply_objs[curr_proj].instances)

\* lines 601-602
SkipVisited ==
    /\ AtAnchor
    /\ visited_instances[curr_proj][curr_id]
    /\ curr_id' = curr_id + 1
    /\ UNCHANGED << df, annot_type, cpc, projects_shaply_objs, visited_instances,
                    curr_proj, other_proj, max_instances, instance_id, image_data,
                    scorer_calls, cons_raised >>
    /\ UNCHANGED << aggVars, writeVars, scoreVars >>

\* line 603
StartGroup ==
    /\ AtAnchor
    /\ ~visited_instances[curr_proj][curr_id]
    /\ max_instances' = << >>
    /\ other_proj' = 1
    /\ UNCHANGED << df, annot_type, cpc, projects_shaply_objs, visited_instances,
                    curr_proj, curr_id, instance_id, image_data, scorer_calls,
                    cons_raised >>
    /\ UNCHANGED << aggVars, writeVars, scoreVars >>

\* MarkVisited leaving the flag as it is
MarkVisitedNot(vis, p, i) == vis

\* visited_instances[proj][id] = True (lines 607 and 626)
MarkVisited(vis, p, i) == [vis EXCEPT ![p][i] = TRUE]

\* lines 604-626: one turn of the loop over the folders
MatchFolder ==
    /\ cpc = "match"
    /\ other_proj \in 1..Len(projects_shaply_objs)
    /\ LET curr == projects_shaply_objs[curr_proj].instances[curr_id]
           others == projects_shaply_objs[other_proj].instances
           vis == visited_instances[other_proj]
           calls == SearchCalls(curr, others, vis)
           best == SearchFolder(curr, others, vis, 1, InitialMaxScore(annot_type), 0)
       IN IF curr_proj = other_proj
          THEN /\ max_instances' =
                     Append(max_instances, Member(projects_shaply_objs[curr_proj].proj, curr))
               /\ visited_instances' = MarkVisited(visited_instances, curr_proj, curr_id)
               /\ other_proj' = other_proj + 1
               /\ UNCHANGED << scorer_calls, cpc, cons_raised >>
          ELSE /\ scorer_calls' = scorer_calls \cup calls
               /\ IF \E c \in calls : IsError(c.score)
                  THEN /\ cpc' = "raised"
                       /\ cons_raised' = "scorer"
                       /\ UNCHANGED << max_instances, visited_instances, other_proj >>
                  ELSE /\ max_instances' =
                             IF best # 0
                             THEN Append(max_instances,
                                         Member(projects_shaply_objs[other_proj].proj,
                                                others[best]))
                             ELSE max_instances
                       /\ visited_instances' =
                             IF best # 0
                             THEN MarkVisited(visited_instances, other_proj, best)
                             ELSE visited_instances
                       /\ other_proj' = other_proj + 1
                       /\ UNCHANGED << cpc, cons_raised >>
    /\ UNCHANGED << df, annot_type, projects_shaply_objs, curr_proj, curr_id,
                    instance_id, image_data >>
    /\ UNCHANGED << aggVars, writeVars, scoreVars >>

\* NextGroupId without the increment
NextGroupIdKept(id) == id

\* line 653
NextGroupId(id) == id + 1

\* lines 627-653: the group is scored and written out
EmitGroup ==
    /\ cpc = "match"
    /\ other_proj = Len(projects_shaply_objs) + 1
    /\ LET calls == IF Len(max_instances) = 1 THEN {} ELSE ScoreCalls(max_instances) IN
       /\ scorer_calls' = scorer_calls \cup calls
       /\ IF \E c \in calls : IsError(c.score)
          THEN /\ cpc' = "raised" /\ cons_raised' = "scorer"
               /\ UNCHANGED << image_data, instance_id, curr_id, other_proj >>
          ELSE IF Len(max_instances) # 1 /\ AllProjects(df) - 1 = 0
          THEN /\ cpc' = "raised" /\ cons_raised' = "division"
               /\ UNCHANGED << image_data, instance_id, curr_id, other_proj >>
          ELSE /\ image_data' =
                     image_data \o GroupRows(max_instances, instance_id, AllProjects(df))
               /\ instance_id' = NextGroupId(instance_id)
               /\ curr_id' = curr_id + 1
               /\ other_proj' = 0
               /\ UNCHANGED << cpc, cons_raised >>
    /\ UNCHANGED << df, annot_type, projects_shaply_objs, visited_instances,
                    curr_proj, max_instances >>
    /\ UNCHANGED << aggVars, writeVars, scoreVars >>

\* the loop over a folder's instances ends
NextProject ==
    /\ cpc = "match"
    /\ other_proj = 0
    /\ curr_proj <= Len(projects_shaply_objs)
    /\ curr_id > Len(projects_shaply_objs[curr_proj].instances)
    /\ curr_proj' = curr_proj + 1
    /\ curr_id' = 1
    /\ UNCHANGED << df, annot_type, cpc, projects_shaply_objs, visited_instances,
                    other_proj, max_instances, instance_id, image_data, scorer_calls,
                    cons_raised >>
    /\ UNCHANGED << aggVars, writeVars, scoreVars >>

\* line 655
ReturnImageData ==
    /\ cpc = "match"
    /\ curr_proj > Len(projects_shaply_objs)
    /\ cpc' = "done"
    /\ UNCHANGED << df, annot_type, projects_shaply_objs, visited_instances,
                    curr_proj, curr_id, other_proj, max_instances, instance_id,
                    image_data, scorer_calls, cons_raised >>
    /\ UNCHANGED << aggVars, writeVars, scoreVars >>

\* ---------------------------------------------- tables for image_consensus
Folders == <<"A", "B", "C">>
FolderIdx(f) == CHOOSE i \in 1..Len(Folders) : Folders[i] = f
ConsClasses == {"car", "bus"}

BoxPoints == { [x1 |-> 0, y1 |-> 0, x2 |-> 2, y2 |-> 2],
               [x1 |-> 3, y1 |-> 2, x2 |-> 1, y2 |-> 0],
               [x1 |-> 2, y1 |-> 0, x2 |-> 4, y2 |-> 2],
               [x1 |-> 0, y1 |-> 0, x2 |-> 0, y2 |-> 2] }
PointMetas == { [x |-> 0, y |-> 0], [x |-> 3, y |-> 0], [x |-> 3, y |-> 4] }

\* flat coordinate lists: a square with a trailing odd coordinate, the same
\* corners taken crosswise, the empty list, two points
PolygonPoints == { <<0, 0, 2, 0, 2, 2, 0, 2, 9>>, <<0, 0, 2, 2, 2, 0, 0, 2>>, << >>,
                   <<0, 0, 2, 2>> }

EllipseMetas == { [cx |-> 1, cy |-> 2, rx |-> 3, ry |-> 4, angle |-> 0] }

Metas(atype) == IF atype = "bbox" THEN { [points |-> b] : b \in BoxPoints }
                ELSE IF atype = "polygon" THEN { [points |-> q] : q \in PolygonPoints }
                ELSE IF atype = "point" THEN PointMetas
                ELSE EllipseMetas

EmailOf(folder) == folder \o "@sa.com"

ConsRow(img, folder, cls, meta) ==
    [imageName |-> img, folderName |-> folder, className |-> cls,
     creatorEmail |-> EmailOf(folder), attributes |-> None, meta |-> meta]

\* folders are named in the order they first occur
Canonical(fseq) ==
    \A i \in 1..Len(fseq) :
        \A f \in 1..(FolderIdx(fseq[i]) - 1) : \E j \in 1..(i - 1) : fseq[j] = Folders[f]

\* the shape carried by the rows of other images: the table holds one
\* annotation type only
OtherMeta(atype) ==
    IF atype = "bbox" THEN [points |-> [x1 |-> 0, y1 |-> 0, x2 |-> 2, y2 |-> 2]]
    ELSE IF atype = "polygon" THEN [points |-> <<0, 0, 2, 0, 2, 2, 0, 2, 9>>]
    ELSE IF atype = "point" THEN [x |-> 0, y |-> 0]
    ELSE [cx |-> 1, cy |-> 2, rx |-> 3, ry |-> 4, angle |-> 0]

\* the rows of other images: one per folder of extra
RECURSIVE OtherRows(_, _, _)
OtherRows(k, extra, atype) ==
    IF k > Len(Folders) THEN <<>>
    ELSE (IF Folders[k] \in extra
          THEN << ConsRow(OtherImage, Folders[k], "car", OtherMeta(atype)) >>
          ELSE <<>>) \o OtherRows(k + 1, extra, atype)

AggIdle ==
    /\ fs = << >>
    /\ has_classes = FALSE
    /\ include_classes_wo_annotations = FALSE
    /\ include_comments = FALSE
    /\ include_tags = FALSE
    /\ folder_names = FolderNamesNone
    /\ pc = "idle"
    /\ raised = None
    /\ class_name_to_color = << >>
    /\ class_group_name_to_values = << >>
    /\ annotations_paths = << >>
    /\ type_postfix = None
    /\ path_idx = 0
    /\ inst_idx = 0
    /\ image_name = None
    /\ annotation_instance_id = 0
    /\ annotation_data = << >>
    /\ origin = << >>
    /\ loaded = {}

\* the three types of the docstring and one the function takes no branch for
AnnotTypes == {"bbox", "polygon", "point", "ellipse"}

InitCons ==
    /\ annot_type \in AnnotTypes
    /\ \E n \in 0..MaxRows :
       \E fseq \in [1..n -> SeqToSet(Folders)] :
       \E cseq \in [1..n -> ConsClasses] :
       \E mseq \in [1..n -> Metas(annot_type)] :
       \E extra \in { {}, {"C"} } :
          /\ Canonical(fseq)
          /\ df = [i \in 1..n |-> ConsRow(ImageName, fseq[i], cseq[i], mseq[i])]
                  \o OtherRows(1, extra, annot_type)
    /\ cpc = "build"
    /\ projects_shaply_objs = << >>
    /\ visited_instances = << >>
    /\ curr_proj = 0
    /\ curr_id = 0
    /\ other_proj = 0
    /\ max_instances = << >>
    /\ instance_id = 0
    /\ image_data = << >>
    /\ scorer_calls = {}
    /\ cons_raised = None
    /\ AggIdle
    /\ WriteIdle
    /\ ScoreIdle

NextCons ==
    \/ BuildObjects
    \/ SkipVisited
    \/ StartGroup
    \/ MatchFolder
    \/ EmitGroup
    \/ NextProject
    \/ ReturnImageData

SpecCons == InitCons /\ [][NextCons]_vars

\* ------------------------------------------- instance_consensus on its own
\* the geometries handed to the scorer: the boxes and points of the tables,
\* a box collapsed to a point, the empty polygon
ScoreGeoms ==
    { Shape([points |-> b], "bbox") : b \in BoxPoints }
    \cup { Shape(m, "point") : m \in PointMetas }
    \cup { Box(1, 1, 1, 1), EmptyPolygon }

InitScore ==
    /\ arg_1 \in ScoreGeoms
    /\ arg_2 \in ScoreGeoms
    /\ spc = "call"
    /\ result = None
    /\ ConsIdle
    /\ AggIdle
    /\ WriteIdle

\* lines 506-524: the call returns the score or raises
CallInstanceConsensus ==
    /\ spc = "call"
    /\ result' = instance_consensus(arg_1, arg_2)
    /\ spc' = IF IsError(result') THEN "raised" ELSE "returned"
    /\ UNCHANGED << arg_1, arg_2 >>
    /\ UNCHANGED << aggVars, consVars, writeVars >>

NextScore == CallInstanceConsensus

SpecScore == InitScore /\ [][NextScore]_vars

\* ================================================================ claims
\* what classes.json defines, read off the file itself
DefinedClass(cls) == \E i \in 1..Len(ClassesJson) : ClassesJson[i].name = cls

DefinedAttribute(cls, attr) ==
    \E i \in 1..Len(ClassesJson) :
        /\ ClassesJson[i].name = cls
        /\ \E j \in 1..Len(ClassesJson[i].attribute_groups) :
              LET g == ClassesJson[i].attribute_groups[j] IN
              /\ g.name = attr.groupName
              /\ \E k \in 1..Len(g.attributes) : g.attributes[k] = attr.name

RECURSIVE SumSeq(_)
SumSeq(q) == IF q = <<>> THEN 0 ELSE Head(q) + SumSeq(Tail(q))

\* rows an instance is due: none for an undefined class, one without
\* attributes, otherwise one per defined attribute
RowsDue(annotation) ==
    IF ~DefinedClass(annotation.className) THEN 0
    ELSE IF annotation.attributes = <<>> THEN 1
    ELSE Cardinality({ k \in 1..Len(annotation.attributes) :
                          DefinedAttribute(annotation.className, annotation.attributes[k]) })

FileRowsDue(f) == SumSeq([i \in 1..Len(f.doc.instances) |-> RowsDue(f.doc.instances[i])])

\* the file name holds the suffix of the pass exactly once, so that
\* name.split(postfix) has two parts
NameFits(f, postfix) == Cardinality({ i \in 1..Len(f.name) : f.name[i] = postfix }) = 1

\* the part of the file name before the suffix
Stem(f, postfix) ==
    LET i == CHOOSE j \in 1..Len(f.name) : f.name[j] = postfix
    IN SubSeq(f.name, 1, i - 1)

FlagsOff == ~include_classes_wo_annotations /\ ~include_comments /\ ~include_tags

\* a discovered file carrying either annotation suffix
IsAnnotationFile(f) == NameFits(f, OBJECTS) \/ NameFits(f, PIXEL)

\* C1 as stated: with the three flags off the returned table has as many rows
\* as the instances of every discovered annotation file are due.
C1_AsStated ==
    (pc = "done" /\ FlagsOff) =>
        Len(annotation_data) =
            SumSeq([p \in 1..Len(annotations_paths) |->
                       IF IsAnnotationFile(annotations_paths[p])
                       THEN FileRowsDue(annotations_paths[p]) ELSE 0])

\* C1 amended: with the three flags off the returned table has as many rows as
\* are due to the instances of the discovered files whose name holds the
\* suffix of the pass exactly once; a discovered file of the other naming
\* convention, or without suffix, adds no row.
C1_RowCount ==
    (pc = "done" /\ FlagsOff) =>
        Len(annotation_data) =
            SumSeq([p \in 1..Len(annotations_paths) |->
                       IF NameFits(annotations_paths[p], type_postfix)
                       THEN FileRowsDue(annotations_paths[p]) ELSE 0])

\* a finished pass that skipped a discovered file and took rows from another
\* whose instances include one with no valid attribute
C1_Witness ==
    /\ pc = "done" /\ FlagsOff
    /\ Len(annotation_data) >= 3
    /\ \E p \in 1..Len(annotations_paths) : ~NameFits(annotations_paths[p], type_postfix)
    /\ \E p \in 1..Len(annotations_paths) :
          /\ NameFits(annotations_paths[p], type_postfix)
          /\ \E i \in 1..Len(annotations_paths[p].doc.instances) :
                LET a == annotations_paths[p].doc.instances[i] IN
                DefinedClass(a.className) /\ a.attributes # <<>> /\ RowsDue(a) = 0

\* the instances of the files the pass has gone through
Processed(p) == p \in loaded /\ NameFits(annotations_paths[p], type_postfix)

RowsOf(p, i) == { r \in 1..Len(annotation_data) : origin[r] = [path |-> p, inst |-> i] }

\* C2: an instance whose className is missing or not in classes.json is
\* skipped without error: no instance makes the pass raise (it raises only
\* before the classes are loaded, or on opening a discovered path that is a
\* directory), no row carries such a className, the skipped instance has no
\* row, and every other instance of the file that is due rows has them.
C2_UnknownClassSkipped ==
    /\ pc \in {"discover", "files", "instances", "done"} => raised = None
    /\ pc = "raised" =>
          \/ raised \in {"deprecated", "classes_not_found"}
          \/ /\ raised = "IsADirectoryError"
             /\ annotations_paths[path_idx].doc = Directory
    /\ \A r \in 1..Len(annotation_data) :
          annotation_data[r].className = None \/ DefinedClass(annotation_data[r].className)
    /\ pc = "done" =>
          \A p \in 1..Len(annotations_paths) : Processed(p) =>
             \A i \in 1..Len(annotations_paths[p].doc.instances) :
                LET a == annotations_paths[p].doc.instances[i] IN
                /\ ~DefinedClass(a.className) => RowsOf(p, i) = {}
                /\ RowsDue(a) > 0 => RowsOf(p, i) # {}

\* a finished pass over a file where an instance of an undefined class comes
\* before an instance that has rows
C2_Witness ==
    /\ pc = "done"
    /\ \E p \in 1..Len(annotations_paths) : Processed(p) /\
          \E i, j \in 1..Len(annotations_paths[p].doc.instances) :
             /\ i < j
             /\ annotations_paths[p].doc.instances[i].className = "ped"
             /\ RowsOf(p, i) = {}
             /\ RowsOf(p, j) # {}

\* ---------------------------------------------------------- matcher claims
\* a match group has just been written: max_instances still holds it and its
\* rows are the last rows of image_data
GroupWritten == cpc \in {"match", "done"} /\ other_proj = 0 /\ instance_id > 0

LastRow(i) == image_data[Len(image_data) - Len(max_instances) + i]

\* the sum of the pairwise scores of member i against the members of the
\* other folders of the group
RECURSIVE PairSum(_, _, _)
PairSum(g, i, j) ==
    IF j > Len(g) THEN Zero
    ELSE IF g[j].proj = g[i].proj THEN PairSum(g, i, j + 1)
    ELSE FAdd(Contribution(instance_consensus(g[i].inst, g[j].inst)), PairSum(g, i, j + 1))

TableFolders == { df[i].folderName : i \in 1..Len(df) }

\* C3 as stated: the score of a member of a group of two or more is the sum
\* of its pairwise scores divided by (group size - 1).
C3_AsStated ==
    (GroupWritten /\ Len(max_instances) >= 2) =>
        \A i \in 1..Len(max_instances) :
            LastRow(i).score = FDivInt(PairSum(max_instances, i, 1), Len(max_instances) - 1)

\* C3 amended: the score of a member of a group of two or more is the sum of
\* its pairwise scores over the other folders represented in the group,
\* divided by (number of distinct folderName values of the whole table - 1).
\* A folder of the table without a member in the group gets no row and adds
\* nothing to the sum, but it counts in the divisor.
C3_ScoreDivisor ==
    (GroupWritten /\ Len(max_instances) >= 2) =>
        \A i \in 1..Len(max_instances) :
            /\ LastRow(i).folderName = max_instances[i].proj
            /\ LastRow(i).instanceId = instance_id - 1
            /\ LastRow(i).score =
                  FDivInt(PairSum(max_instances, i, 1), Cardinality(TableFolders) - 1)

\* three folders in the table, A and B hold the same box of a class, C has no
\* member in the group: both rows score one half
C3_Witness ==
    /\ GroupWritten /\ annot_type = "bbox"
    /\ Cardinality(TableFolders) = 3
    /\ Len(max_instances) = 2
    /\ max_instances[1].inst = max_instances[2].inst
    /\ LastRow(1).score = << 1, 2 >> /\ LastRow(2).score = << 1, 2 >>

\* C4 as stated: the scorer is never invoked on two instances of different
\* className.
C4_AsStated == \A c \in scorer_calls : c.class_1 = c.class_2

\* C4 amended: the scorer is invoked on cross-class pairs while a folder is
\* searched, but such a score is never used: every member of a match group
\* has the className of the anchor, the scoring step invokes the scorer on
\* same-class pairs only, and on bbox and point tables no invocation raises.
C4_CrossClassUnused ==
    /\ annot_type \in {"bbox", "point"} =>
          /\ \A c \in scorer_calls : ~IsError(c.score)
          /\ cons_raised = None
    /\ \A c \in scorer_calls : c.phase = "score" => c.class_1 = c.class_2
    /\ (cpc = "match" /\ other_proj >= 1) =>
          \A m \in 1..Len(max_instances) :
              max_instances[m].className =
                  projects_shaply_objs[curr_proj].instances[curr_id].className
    /\ GroupWritten =>
          \A m, n \in 1..Len(max_instances) :
              max_instances[m].className = max_instances[n].className

\* a finished run in which the scorer was handed a cross-class pair during a
\* search and a same-class pair during scoring
C4_Witness ==
    /\ cpc = "done"
    /\ \E c \in scorer_calls : c.phase = "match" /\ c.class_1 # c.class_2
    /\ \E c \in scorer_calls : c.phase = "score"
    /\ \E i, j \in 1..Len(image_data) :
          i # j /\ image_data[i].instanceId = image_data[j].instanceId

ImageRows == { i \in 1..Len(df) : df[i].imageName = ImageName }

\* two folders A and B in the table, one box each for the image, same class,
\* same coordinates
TwoIdenticalBoxes ==
    /\ annot_type = "bbox"
    /\ TableFolders = {"A", "B"}
    /\ Cardinality(ImageRows) = 2
    /\ \E i, j \in ImageRows :
          /\ df[i].folderName = "A" /\ df[j].folderName = "B"
          /\ df[i].className = df[j].className
          /\ df[i].meta = df[j].meta

\* the boxes of the image have a width and a height
PositiveArea ==
    \A i \in ImageRows : /\ df[i].meta.points.x1 # df[i].meta.points.x2
                          /\ df[i].meta.points.y1 # df[i].meta.points.y2

\* C5 as stated: two folders A and B with one identical box of the same class
\* each give one match group of two rows sharing the instanceId, each with
\* score 1, whatever the coordinates.
C5_AsStated ==
    (cpc = "done" /\ TwoIdenticalBoxes) =>
        /\ Len(image_data) = 2
        /\ image_data[1].instanceId = image_data[2].instanceId
        /\ { image_data[1].folderName, image_data[2].folderName } = {"A", "B"}
        /\ image_data[1].score = One /\ image_data[2].score = One

\* C5 amended: the two identical boxes give one match group of two rows
\* sharing the instanceId, each with score 1, when the box has a width and a
\* height; when it is collapsed to a segment or a point both records are
\* dropped as invalid geometry and the run returns no row.
C5_IdenticalBoxes ==
    (cpc = "done" /\ TwoIdenticalBoxes) =>
        IF PositiveArea
        THEN /\ Len(image_data) = 2
             /\ image_data[1].instanceId = image_data[2].instanceId
             /\ { image_data[1].folderName, image_data[2].folderName } = {"A", "B"}
             /\ image_data[1].score = One /\ image_data[2].score = One
        ELSE /\ image_data = << >>
             /\ scorer_calls = {}

\* the run has ended on two identical boxes given with swapped corners
C5_Witness ==
    /\ cpc = "done" /\ TwoIdenticalBoxes /\ PositiveArea
    /\ Len(image_data) = 2
    /\ \E i \in ImageRows : df[i].meta.points.x1 > df[i].meta.points.x2

\* ------------------------------------------------------ aggregator claims
InstanceRowIds == { r \in 1..Len(annotation_data) :
                       annotation_data[r].instanceId # NullId }

SameKey(r, q) ==
    /\ annotation_data[r].imageName = annotation_data[q].imageName
    /\ annotation_data[r].folderName = annotation_data[q].folderName
    /\ annotation_data[r].instanceId = annotation_data[q].instanceId

InstanceFields == {"className", "type", "meta", "locked", "classColor"}

SameInstanceFields(r, q) ==
    \A k \in InstanceFields : annotation_data[r][k] = annotation_data[q][k]

DifferentAttribute(r, q) ==
    \/ annotation_data[r].attributeGroupName # annotation_data[q].attributeGroupName
    \/ annotation_data[r].attributeName # annotation_data[q].attributeName

FileOfRow(r) == annotations_paths[origin[r].path]

\* the instance a row came from lists no attribute twice
NoRepeatedAttribute(r) ==
    LET attrs == FileOfRow(r).doc.instances[origin[r].inst].attributes IN
    \A i, j \in 1..Len(attrs) : i # j => attrs[i] # attrs[j]

\* C6 as stated: rows sharing (imageName, folderName, instanceId) come from
\* one instance of one file, agree on the instance fields and differ in
\* their attribute, for any layout under the root.
C6_AsStated ==
    \A r, q \in InstanceRowIds : (r # q /\ SameKey(r, q)) =>
        /\ FileOfRow(r).dir = FileOfRow(q).dir
        /\ FileOfRow(r).name = FileOfRow(q).name
        /\ origin[r].inst = origin[q].inst
        /\ SameInstanceFields(r, q)
        /\ (origin[r].path = origin[q].path /\ NoRepeatedAttribute(r))
              => DifferentAttribute(r, q)

\* no two files gone through share an image name and a parent directory name
DistinctImageFolders ==
    \A p, q \in 1..Len(annotations_paths) :
        (p # q /\ NameFits(annotations_paths[p], type_postfix)
               /\ NameFits(annotations_paths[q], type_postfix)) =>
            \/ annotations_paths[p].name # annotations_paths[q].name
            \/ annotations_paths[p].dir = <<>> /\ annotations_paths[q].dir # <<>>
            \/ annotations_paths[p].dir # <<>> /\ annotations_paths[q].dir = <<>>
            \/ /\ annotations_paths[p].dir # <<>> /\ annotations_paths[q].dir # <<>>
               /\ annotations_paths[p].dir[Len(annotations_paths[p].dir)]
                     # annotations_paths[q].dir[Len(annotations_paths[q].dir)]

\* C6 amended: among the rows taken from one discovered path, those sharing
\* an instanceId come from one instance, agree on the instance fields and,
\* when that instance lists no attribute twice, differ pairwise in their
\* attribute.  Rows of different paths sharing (imageName, folderName,
\* instanceId) come from one instance only when no two files gone through
\* share an image name and the name of their parent directory, which nested
\* subfolders do not guarantee.
C6_OneInstancePerKey ==
    /\ \A r, q \in InstanceRowIds :
          (r # q /\ origin[r].path = origin[q].path
                 /\ annotation_data[r].instanceId = annotation_data[q].instanceId) =>
              /\ origin[r].inst = origin[q].inst
              /\ SameKey(r, q)
              /\ SameInstanceFields(r, q)
              /\ NoRepeatedAttribute(r) => DifferentAttribute(r, q)
    /\ (pc \in {"files", "instances", "done"} /\ DistinctImageFolders) =>
          \A r, q \in InstanceRowIds : SameKey(r, q) => origin[r] = origin[q]

\* a file gave two rows to one instance and a row to a later instance
C6_Witness ==
    /\ pc = "done"
    /\ \E r, q, t \in InstanceRowIds :
          /\ r # q /\ origin[r] = origin[q]
          /\ origin[t].path = origin[r].path /\ origin[t].inst > origin[r].inst
          /\ annotation_data[t].instanceId = annotation_data[r].instanceId + 1

\* C7 as stated: a row of a file directly under the root has folderName None,
\* a row of a file at any depth under a subfolder of the root has the name of
\* that top-level subfolder.
C7_AsStated ==
    \A r \in InstanceRowIds :
        annotation_data[r].folderName =
            IF FileOfRow(r).dir = <<>> THEN None ELSE FileOfRow(r).dir[1]

\* C7 amended: a row of a file directly under the root has folderName None,
\* a row of any other file has the name of the directory the file lies in,
\* which is the top-level subfolder only for a file directly inside it.
C7_ParentFolder ==
    \A r \in InstanceRowIds :
        annotation_data[r].folderName =
            IF FileOfRow(r).dir = <<>> THEN None
            ELSE FileOfRow(r).dir[Len(FileOfRow(r).dir)]

\* rows of a root file, and rows of a file two levels down named after x
C7_Witness ==
    /\ pc = "done"
    /\ \E r, q \in InstanceRowIds :
          /\ FileOfRow(r).dir = <<>> /\ annotation_data[r].folderName = None
          /\ FileOfRow(q).dir = <<"A", "x">> /\ annotation_data[q].folderName = "x"

IsLegacyName(name) == ~Contains(name, OBJECTS) /\ ~Contains(name, PIXEL)

\* C8 as stated: a root holding a legacy file is never aggregated into a
\* table, and no legacy file is loaded and passed over.
C8_AsStated ==
    (\E i \in 1..Len(fs) : IsLegacyName(fs[i].name)) =>
        /\ pc # "done"
        /\ \A p \in loaded : ~IsLegacyName(annotations_paths[p].name)

\* the name of the entry of the root that holds the file: the file itself
\* or the directory of the root it lies under
RootName(f) == IF f.dir = <<>> THEN f.name ELSE DirName(f.dir[1])

\* the first entry directly under the root whose name ends in .json, a file
\* or a directory, carries neither suffix
FirstRootJsonIsLegacy ==
    \E i \in 1..Len(fs) :
        /\ IsJsonName(RootName(fs[i]))
        /\ \A j \in 1..(i - 1) : ~IsJsonName(RootName(fs[j]))
        /\ IsLegacyName(RootName(fs[i]))

\* C8 amended: the pass fails with the document/video error exactly when the
\* first entry named *.json directly under the root, a file or a directory,
\* carries neither suffix.  A
\* legacy file anywhere else does not stop the pass; when discovered it is
\* loaded and passed over, and it yields no row.
C8_FirstRootFile ==
    /\ pc # "start" => (raised = "deprecated" <=> FirstRootJsonIsLegacy)
    /\ \A r \in 1..Len(annotation_data) :
          origin[r].path # 0 => ~IsLegacyName(FileOfRow(r).name)

\* a table was returned although a legacy file was loaded and passed over
C8_Witness ==
    /\ pc = "done"
    /\ Len(annotation_data) > 0
    /\ \E p \in loaded : IsLegacyName(annotations_paths[p].name)
    /\ \E i \in 1..Len(fs) : fs[i].dir = <<>> /\ IsLegacyName(fs[i].name)

\* C9: without classes/classes.json the call raises, no annotation file was
\* loaded before and no row exists.
C9_MissingClasses ==
    ~has_classes =>
        /\ pc \in {"start", "classes", "raised"}
        /\ pc = "raised" => raised \in {"deprecated", "classes_not_found"}
        /\ loaded = {}
        /\ annotation_data = << >>

\* the classes error was raised for a root holding an annotation file
C9_Witness ==
    /\ ~has_classes /\ pc = "raised" /\ raised = "classes_not_found"
    /\ \E i \in 1..Len(fs) : NameFits(fs[i], OBJECTS) /\ fs[i].dir = <<"A">>

\* the image name and suffix of every row's file, under the suffix in use
RowsFitPostfix ==
    \A r \in 1..Len(annotation_data) : origin[r].path # 0 =>
        /\ NameFits(FileOfRow(r), type_postfix)
        /\ annotation_data[r].imageName = Concat(Stem(FileOfRow(r), type_postfix))

\* C10 as stated: one suffix serves the whole pass and it is the suffix of
\* the first annotation file found.
C10_AsStated ==
    /\ RowsFitPostfix
    /\ (pc \in {"files", "instances", "done"} /\ annotations_paths # << >>
          /\ IsAnnotationFile(annotations_paths[1])) =>
          NameFits(annotations_paths[1], type_postfix)

\* the file, or a directory it lies under, has a name ending in
\* ___objects.json
HasObjectsPath(f) ==
    \/ EndsWithObjects(f.name)
    \/ \E k \in 1..Len(f.dir) : EndsWithObjects(DirName(f.dir[k]))

\* C10 amended: one suffix serves the whole pass.  It is ___objects.json when
\* any file or directory anywhere under the root has a name ending in ___objects.json,
\* discovered or not, and ___pixel.json otherwise; in a mixed root only the
\* ___objects.json files yield records, whichever file is found first.
C10_ObjectsFirst ==
    /\ RowsFitPostfix
    /\ pc \in {"files", "instances", "done"} =>
          type_postfix = IF \E i \in 1..Len(fs) : HasObjectsPath(fs[i])
                         THEN OBJECTS ELSE PIXEL

\* the first file found is a pixel file, the rows come from an objects file
C10_Witness ==
    /\ pc = "done"
    /\ Len(annotations_paths) >= 2
    /\ NameFits(annotations_paths[1], PIXEL)
    /\ type_postfix = OBJECTS
    /\ Len(annotation_data) > 0

\* the (class, attribute group, attribute) triples of classes.json
ClassTriples ==
    { [cls |-> ClassesJson[i].name,
       group |-> ClassesJson[i].attribute_groups[j].name,
       attr |-> ClassesJson[i].attribute_groups[j].attributes[k]] :
        <<i, j, k>> \in { q \in (1..Len(ClassesJson)) \X (1..2) \X (1..2) :
            /\ q[2] <= Len(ClassesJson[q[1]].attribute_groups)
            /\ q[3] <= Len(ClassesJson[q[1]].attribute_groups[q[2]].attributes) } }

ClassNames == { ClassesJson[i].name : i \in 1..Len(ClassesJson) }

RowsOfClass(cls) == { r \in 1..Len(annotation_data) : annotation_data[r].className = cls }

RowsOfTriple(t) ==
    { r \in RowsOfClass(t.cls) :
        /\ annotation_data[r].attributeGroupName = t.group
        /\ annotation_data[r].attributeName = t.attr }

\* rows taken from a file, rows added after the pass over the files
Observed(r) == origin[r].path # 0
AddedRow(r) == origin[r] = NoOrigin

\* C11 as stated: with include_classes_wo_annotations every class and every
\* (class, attribute group, attribute) triple of classes.json occurs in a row
\* of the returned table, the attributes of a never annotated class included.
C11_AsStated ==
    (pc = "done" /\ include_classes_wo_annotations) =>
        /\ \A c \in ClassNames : RowsOfClass(c) # {}
        /\ \A t \in ClassTriples : RowsOfTriple(t) # {}

\* C11 amended: with include_classes_wo_annotations every class of
\* classes.json occurs in a row.  A class no observed row carries gets exactly
\* one added row, with null attribute group and attribute, and its attributes
\* get no row.  For a class some observed row carries, every attribute occurs
\* in a row: an attribute no observed row of the class carries gets exactly
\* one added row, an observed one gets none.  Added rows have null imageName
\* and instanceId.
C11_ClassesWithoutAnnotations ==
    (pc = "done" /\ include_classes_wo_annotations) =>
        /\ \A c \in ClassNames : RowsOfClass(c) # {}
        /\ \A r \in 1..Len(annotation_data) : AddedRow(r) =>
              /\ annotation_data[r].imageName = None
              /\ annotation_data[r].instanceId = NullId
        /\ \A c \in ClassNames : (\A r \in RowsOfClass(c) : ~Observed(r)) =>
              /\ Cardinality(RowsOfClass(c)) = 1
              /\ \A r \in RowsOfClass(c) :
                    /\ annotation_data[r].attributeGroupName = None
                    /\ annotation_data[r].attributeName = None
        /\ \A t \in ClassTriples : (\E r \in RowsOfClass(t.cls) : Observed(r)) =>
              /\ RowsOfTriple(t) # {}
              /\ Cardinality({ r \in RowsOfTriple(t) : AddedRow(r) }) =
                    IF \E r \in RowsOfTriple(t) : Observed(r) THEN 0 ELSE 1

\* car was annotated with a1 only and bus never: a2 of car and the class bus
\* each got an added row, b1 of bus got none
C11_Witness ==
    /\ pc = "done" /\ include_classes_wo_annotations
    /\ \E r \in RowsOfClass("car") :
          Observed(r) /\ annotation_data[r].attributeName = "a1"
    /\ \E r \in RowsOfClass("car") :
          AddedRow(r) /\ annotation_data[r].attributeName = "a2"
    /\ \E r \in RowsOfClass("bus") : AddedRow(r)
    /\ \A r \in RowsOfClass("bus") : annotation_data[r].attributeName # "b1"

\* the dispatch table of the payload keys, by instance type
PayloadKeys(t) ==
    IF t \in {"bbox", "polygon", "polyline", "cuboid"} THEN {"points"}
    ELSE IF t = "point" THEN {"x", "y"}
    ELSE IF t = "ellipse" THEN {"cx", "cy", "rx", "ry", "angle"}
    ELSE IF t = "mask" THEN {"parts"}
    ELSE IF t = "template" THEN {"connections", "points"}
    ELSE {}

DispatchTypes ==
    {"bbox", "polygon", "polyline", "cuboid", "point", "ellipse", "mask", "template"}

\* the instance of the file a row was built from
SourceOf(r) == FileOfRow(r).doc.instances[origin[r].inst]

\* C12: the meta of every instance record is chosen by the instance type
\* alone.  A type of the dispatch table gives exactly the keys of its entry,
\* with the values of the instance; any other type gives a record with that
\* type and a null meta; an instance of a defined class is emitted whatever
\* its type.  (An instance without a type key is handled as a mask.)
C12_MetaByType ==
    /\ \A r \in InstanceRowIds :
          LET a == SourceOf(r)
              t == IF "type" \in DOMAIN a THEN a.type ELSE "mask"
              row == annotation_data[r]
          IN /\ row.type = t
             /\ IF t \in DispatchTypes
                THEN /\ DOMAIN row.meta = PayloadKeys(t)
                     /\ \A k \in PayloadKeys(t) : row.meta[k] = a[k]
                ELSE row.meta = MetaNone
    /\ pc = "done" =>
          \A p \in 1..Len(annotations_paths) : Processed(p) =>
             \A i \in 1..Len(annotations_paths[p].doc.instances) :
                RowsDue(annotations_paths[p].doc.instances[i]) > 0 => RowsOf(p, i) # {}

\* a file gave a record with the five ellipse keys and a record of a type
\* outside the table with a null meta
C12_Witness ==
    /\ pc = "done"
    /\ \E r, q \in InstanceRowIds :
          /\ annotation_data[r].type = "ellipse"
          /\ DOMAIN annotation_data[r].meta = {"cx", "cy", "rx", "ry", "angle"}
          /\ annotation_data[q].type = "rbbox"
          /\ annotation_data[q].meta = MetaNone
          /\ "points" \in DOMAIN SourceOf(q)

\* ------------------------------------------------------- round trip claims
\* the keys df_to_annotations sets on every instance, geometry aside
BaseKeys == {"className", "type", "attributes", "probability", "error", "pointLabels",
             "locked", "visible", "trackingId", "groupId"}

\* the instance written for (image, instanceId): instance ids of an image
\* count up from 0, so it is the (id + 1)-th instance of the image's file
WrittenInstance(img, id) ==
    LET f == CHOOSE k \in 1..Len(written) : written[k].name = << img, OBJECTS >>
    IN written[f].doc.instances[id + 1]

\* the geometry payload of the written instance is that of the instance a
PayloadKept(a, out) ==
    LET t == IF "type" \in DOMAIN a THEN a.type ELSE "mask" IN
    /\ DOMAIN out \ BaseKeys = PayloadKeys(t)
    /\ \A k \in PayloadKeys(t) : out[k] = a[k]

\* an instance the round trip claim is about
RoundTripCase(a) ==
    /\ DefinedClass(a.className)
    /\ a.attributes = << >>
    /\ "type" \in DOMAIN a /\ a.type \in DispatchTypes

\* C13 as stated: an instance without attributes of a type of the dispatch
\* table, aggregated from a root of one file and written back, comes out with
\* the geometry keys and values it had.
C13_AsStated ==
    (wpc # "idle" /\ Len(annotations_paths) = 1 /\ Processed(1)) =>
        \A i \in 1..Len(annotations_paths[1].doc.instances) :
            RoundTripCase(annotations_paths[1].doc.instances[i]) =>
                /\ wpc = "written"
                /\ \A r \in RowsOf(1, i) :
                      PayloadKept(annotations_paths[1].doc.instances[i],
                                  WrittenInstance(annotation_data[r].imageName,
                                                  annotation_data[r].instanceId))

\* the first row of the table for its (imageName, instanceId)
FirstOfInstance(r) ==
    /\ r \in InstanceRowIds
    /\ \A q \in 1..(r - 1) :
          \/ annotation_data[q].imageName # annotation_data[r].imageName
          \/ annotation_data[q].instanceId # annotation_data[r].instanceId

TableImages == { annotation_data[r].imageName : r \in 1..Len(annotation_data) } \ {None}

\* ------------------------------------------------------------ scorer claims
\* the unit cells of the plane a rectangle covers
Cells(g) == { c \in (-1..7) \X (-1..7) :
                /\ g.minx <= c[1] /\ c[1] + 1 <= g.maxx
                /\ g.miny <= c[2] /\ c[2] + 1 <= g.maxy }

BothPolygons == arg_1.type = "Polygon" /\ arg_2.type = "Polygon"

\* C14 as stated: on two polygons whose union has zero area the scorer
\* returns 0 and does not raise.
C14_AsStated ==
    (spc # "call" /\ BothPolygons /\ Cells(arg_1) \cup Cells(arg_2) = {}) =>
        spc = "returned" /\ result = Zero

\* C15: for a valid box A of positive area the score of (A, A) is exactly
\* 1; for two boxes with a union of positive area the score is the area of
\* the intersection divided by the area of the union.
C15_SelfScoreOne ==
    (spc # "call" /\ BothPolygons /\ Cells(arg_1) \cup Cells(arg_2) # {}) =>
        /\ spc = "returned"
        /\ result[2] > 0
        /\ result[1] * Cardinality(Cells(arg_1) \cup Cells(arg_2))
              = result[2] * Cardinality(Cells(arg_1) \cap Cells(arg_2))
        /\ (arg_1 = arg_2 /\ IsValid(arg_1)) => result = One

\* the scorer returned 1 for a box of positive area against itself
C15_Witness ==
    /\ spc = "returned" /\ BothPolygons
    /\ arg_1 = arg_2 /\ IsValid(arg_1) /\ Area(arg_1) = 4
    /\ result = One

\* --------------------------------------------------------- empty root claims
\* no JSON file lies where the pass looks: outside classes when folder_names
\* is None, under a requested folder otherwise (classes, when requested, holds
\* classes.json)
NothingToFind ==
    /\ "classes" \notin SeqToSet(folder_names)
    /\ \A i \in 1..Len(fs) :
          IF folder_names = FolderNamesNone
          THEN \/ fs[i].dir # << >> /\ fs[i].dir[1] = "classes"
               \/ fs[i].dir = << >> /\ ~HasJsonSuffix(fs[i].name)
          ELSE fs[i].dir = << >> \/ fs[i].dir[1] \notin SeqToSet(folder_names)

\* C17 as stated: with a classes file and no annotation file where the pass
\* looks (the root holding no legacy file either), the call does not raise
\* and returns a table with zero rows.
C17_AsStated ==
    (has_classes /\ NothingToFind /\ ~FirstRootJsonIsLegacy) =>
        /\ pc # "raised"
        /\ pc = "done" => annotation_data = << >>

\* C17 amended: with a classes file and no JSON file where the pass looks,
\* the call raises only the document/video error, and only when the first
\* entry named *.json directly under the root has a legacy name.  Otherwise it returns
\* a table without rows when include_classes_wo_annotations is off, and a
\* table of one row per class of classes.json, in the order of the file,
\* with null imageName, instanceId and attribute, when it is on.
C17_NothingFound ==
    (has_classes /\ NothingToFind) =>
        /\ pc = "raised" => raised = "deprecated" /\ FirstRootJsonIsLegacy
        /\ FirstRootJsonIsLegacy => pc \in {"start", "raised"}
        /\ loaded = {}
        /\ (pc = "done" /\ ~include_classes_wo_annotations) => annotation_data = << >>
        /\ (pc = "done" /\ include_classes_wo_annotations) =>
              /\ Len(annotation_data) = Len(ClassesJson)
              /\ \A i \in 1..Len(ClassesJson) :
                    /\ annotation_data[i].className = ClassesJson[i].name
                    /\ annotation_data[i].imageName = None
                    /\ annotation_data[i].instanceId = NullId
                    /\ annotation_data[i].attributeName = None

\* the requested folder holds nothing while another folder holds an
\* annotation file: the table returned has the two class rows only
C17_Witness ==
    /\ pc = "done" /\ has_classes /\ NothingToFind
    /\ folder_names = <<"A">>
    /\ \E i \in 1..Len(fs) : fs[i].dir = <<"B", "x">> /\ NameFits(fs[i], OBJECTS)
    /\ include_classes_wo_annotations
    /\ Len(annotation_data) = 2

\* ----------------------------------------------------------- matching claims
Anchor == projects_shaply_objs[curr_proj].instances[curr_id]

\* the unvisited instances of the folder being searched that have the
\* anchor's className and, for bbox and polygon, a score above 0
Candidates ==
    { k \in 1..Len(projects_shaply_objs[other_proj].instances) :
        LET o == projects_shaply_objs[other_proj].instances[k] IN
        /\ ~visited_instances[other_proj][k]
        /\ o.className = Anchor.className
        /\ annot_type \in {"bbox", "polygon"} =>
              Gt(instance_consensus(Anchor.inst, o.inst), Zero) }

\* the earliest of the candidates no other candidate beats
BestCandidate ==
    CHOOSE k \in Candidates :
        LET sk == instance_consensus(Anchor.inst,
                                     projects_shaply_objs[other_proj].instances[k].inst)
        IN \A j \in Candidates :
              LET sj == instance_consensus(Anchor.inst,
                                           projects_shaply_objs[other_proj].instances[j].inst)
              IN ~Gt(sj, sk) /\ (j < k => Gt(sk, sj))

\* the search of another folder has ended without error
FolderSearched ==
    /\ cpc = "match"
    /\ other_proj \in 1..Len(projects_shaply_objs)
    /\ other_proj # curr_proj
    /\ other_proj' = other_proj + 1

\* C18: when the search of another folder ends, the group gains the earliest
\* of the unvisited instances of that folder with the anchor's className
\* whose score against the anchor is maximal among them (for bbox and
\* polygon among those with a score above 0), and that instance is marked
\* visited; when there is no such instance the group and the flags stay.
C18_BestCandidate ==
    [][FolderSearched =>
          IF Candidates = {}
          THEN max_instances' = max_instances /\ visited_instances' = visited_instances
          ELSE /\ max_instances' =
                     Append(max_instances,
                            Member(projects_shaply_objs[other_proj].proj,
                                   projects_shaply_objs[other_proj].instances[BestCandidate]))
               /\ visited_instances' =
                     [visited_instances EXCEPT ![other_proj][BestCandidate] = TRUE]]_vars

\* the first anchor has searched a folder of two boxes of its class and took
\* the second, which overlaps it more than the first does
C18_Witness ==
    /\ cpc = "match" /\ annot_type = "bbox"
    /\ instance_id = 0 /\ curr_proj = 1 /\ curr_id = 1 /\ other_proj = 3
    /\ Len(projects_shaply_objs[2].instances) = 2
    /\ \A k \in 1..2 :
          /\ projects_shaply_objs[2].instances[k].className = Anchor.className
          /\ Gt(instance_consensus(Anchor.inst, projects_shaply_objs[2].instances[k].inst),
                Zero)
    /\ visited_instances[2] = << FALSE, TRUE >>
    /\ Len(max_instances) = 2

\* the number of instances marked visited
VisitedCount ==
    SumSeq([p \in 1..Len(visited_instances) |->
               Cardinality({ k \in 1..Len(visited_instances[p]) : visited_instances[p][k] })])

\* C19: a match group holds at most one instance per folder, so no more
\* instances than the image has folders; once the loop over the folders has
\* passed the anchor's folder the group holds the anchor; and no instance is
\* a member twice: the members of all groups, written or under construction,
\* are as many as the instances marked visited.
C19_GroupShape ==
    cpc \in {"match", "done"} =>
        /\ \A m, n \in 1..Len(max_instances) :
              m # n => max_instances[m].proj # max_instances[n].proj
        /\ Len(max_instances) <=
              Cardinality({ df[i].folderName : i \in ImageRows })
        /\ (cpc = "match" /\ other_proj > curr_proj) =>
              \E m \in 1..Len(max_instances) :
                  max_instances[m] = Member(projects_shaply_objs[curr_proj].proj, Anchor)
        /\ VisitedCount = Len(image_data) + (IF other_proj >= 1 THEN Len(max_instances) ELSE 0)

\* folder A holds two boxes and folder B one, all of one class and all
\* overlapping: the first anchor took the box of B, the second stayed alone
C19_Witness ==
    /\ cpc = "done" /\ annot_type = "bbox"
    /\ Len(image_data) = 3
    /\ image_data[1].instanceId = 0 /\ image_data[1].folderName = "A"
    /\ image_data[2].instanceId = 0 /\ image_data[2].folderName = "B"
    /\ image_data[3].instanceId = 1 /\ image_data[3].folderName = "A"
    /\ image_data[3].className = image_data[2].className
    /\ \E c \in scorer_calls : c.phase = "match" /\ Gt(c.score, Zero) /\ c.score # One

\* the sum over the members of the other folders of: 1 when the two shapes
\* share no area, their intersection over union otherwise
RECURSIVE ClampedSum(_, _, _)
ClampedSum(g, i, j) ==
    IF j > Len(g) THEN Zero
    ELSE IF g[j].proj = g[i].proj THEN ClampedSum(g, i, j + 1)
    ELSE LET both == Cells(g[i].inst) \cap Cells(g[j].inst)
             any == Cells(g[i].inst) \cup Cells(g[j].inst)
         IN FAdd(IF both = {} THEN One ELSE Frac(Cardinality(both), Cardinality(any)),
                 ClampedSum(g, i, j + 1))

\* C20: in a bbox or polygon group of two or more, the sum behind a member's
\* score takes 1 for every member of another folder that does not overlap
\* it and the intersection over union for every one that does.
C20_NoOverlapCountsOne ==
    (GroupWritten /\ annot_type \in {"bbox", "polygon"} /\ Len(max_instances) >= 2) =>
        \A i \in 1..Len(max_instances) :
            LastRow(i).score =
                FDivInt(ClampedSum(max_instances, i, 1), Cardinality(TableFolders) - 1)

\* a group of three boxes: the anchor overlaps the other two by a third
\* each, the other two only touch; each of them scores (1/3 + 1) / 2
C20_Witness ==
    /\ GroupWritten /\ annot_type = "bbox"
    /\ Len(max_instances) = 3
    /\ Cells(max_instances[2].inst) \cap Cells(max_instances[3].inst) = {}
    /\ LastRow(1).score = << 1, 3 >>
    /\ LastRow(2).score = << 2, 3 >>
    /\ LastRow(3).score = << 2, 3 >>

\* ------------------------------------------------------------- point claims
\* the sum of the negative distances of member i to the members of the other
\* folders of the group
RECURSIVE DistanceSum(_, _, _)
DistanceSum(g, i, j) ==
    IF j > Len(g) THEN Zero
    ELSE IF g[j].proj = g[i].proj THEN DistanceSum(g, i, j + 1)
    ELSE FAdd(Frac(-1 * Distance(g[i].inst, g[j].inst), 1), DistanceSum(g, i, j + 1))

OtherMembers(g, i) == { j \in 1..Len(g) : g[j].proj # g[i].proj }

\* C21 as stated: the score of a point with a counterpart is the average of
\* the negative distances to the matched members of the other folders.
C21_AsStated ==
    (GroupWritten /\ annot_type = "point" /\ Len(max_instances) >= 2) =>
        \A i \in 1..Len(max_instances) :
            \/ LastRow(i).score =
                  FDivInt(DistanceSum(max_instances, i, 1), Cardinality(TableFolders) - 1)
            \/ LastRow(i).score =
                  FDivInt(DistanceSum(max_instances, i, 1), Len(max_instances) - 1)

\* C21 amended: the replacement of a pairwise score of 0 or less by 1.0
\* applies to points too, and a point score is never above 0: the score of a
\* point with a counterpart is the number of members of the other folders in
\* its group divided by (number of folders of the table - 1), whatever the
\* distances are.
C21_PointScoreCountsMembers ==
    (GroupWritten /\ annot_type = "point" /\ Len(max_instances) >= 2) =>
        \A i \in 1..Len(max_instances) :
            LastRow(i).score =
                Frac(Cardinality(OtherMembers(max_instances, i)), Cardinality(TableFolders) - 1)

\* two folders, two points of one class five apart: both rows score 1
C21_Witness ==
    /\ GroupWritten /\ annot_type = "point"
    /\ Cardinality(TableFolders) = 2
    /\ Len(max_instances) = 2
    /\ Distance(max_instances[1].inst, max_instances[2].inst) = 5
    /\ LastRow(1).score = One /\ LastRow(2).score = One

\* ------------------------------------------------------- output row claims
\* the loop over the folders has ended for the anchor, the group is complete
GroupComplete == cpc = "match" /\ other_proj = Len(projects_shaply_objs) + 1

\* C22: a group of one member is written as exactly one row, the row of that
\* member with score 0, and the scorer is not invoked while it is written.
C22_LoneMemberScoresZero ==
    [][(GroupComplete /\ Len(max_instances) = 1) =>
          /\ scorer_calls' = scorer_calls
          /\ Len(image_data') = Len(image_data) + 1
          /\ SubSeq(image_data', 1, Len(image_data)) = image_data
          /\ LET row == image_data'[Len(image_data')] IN
             /\ row.score = Zero
             /\ row.instanceId = instance_id
             /\ row.folderName = max_instances[1].proj
             /\ row.className = max_instances[1].className
             /\ row.area = Area(max_instances[1].inst)]_vars

\* a box was searched for in another folder that holds a box of its class,
\* none was picked, and it was written alone with score 0
C22_Witness ==
    /\ GroupWritten /\ annot_type = "bbox"
    /\ Len(max_instances) = 1
    /\ Len(projects_shaply_objs) >= 2
    /\ \E c \in scorer_calls : c.phase = "match" /\ c.class_1 = c.class_2
    /\ \A c \in scorer_calls : c.phase = "match"
    /\ LastRow(1).score = Zero

OutputIds == { image_data[r].instanceId : r \in 1..Len(image_data) }

\* C23: the group ids of the output are 0, 1, ..., G-1 in the order the
\* groups are written: the rows of the group just written all carry the
\* newest id, no earlier row carries it, and the ids never skip or go back.
C23_SequentialGroupIds ==
    cpc \in {"match", "done"} =>
        /\ OutputIds = 0..(instance_id - 1)
        /\ \A r \in 1..(Len(image_data) - 1) :
              image_data[r + 1].instanceId - image_data[r].instanceId \in {0, 1}
        /\ GroupWritten =>
              /\ \A i \in 1..Len(max_instances) : LastRow(i).instanceId = instance_id - 1
              /\ \A r \in 1..(Len(image_data) - Len(max_instances)) :
                    image_data[r].instanceId < instance_id - 1

\* a lone instance got id 0, the group of two written after it got id 1
C23_Witness ==
    /\ cpc = "done"
    /\ Len(image_data) = 3
    /\ image_data[1].instanceId = 0
    /\ image_data[2].instanceId = 1 /\ image_data[3].instanceId = 1
    /\ image_data[2].folderName # image_data[3].folderName

\* the records of the image in the table, and the folders that hold them
ImageRecords == { i \in 1..Len(df) : df[i].imageName = ImageName }
ImageFolders == { df[i].folderName : i \in ImageRecords }

\* C24 as stated: the rows of the image are what its own records alone give:
\* on the table cut down to the image's records the divisor is the number of
\* folders of these records minus one, so the score of a member would be its
\* sum of pairwise scores over that number.
C24_AsStated ==
    (GroupWritten /\ Len(max_instances) >= 2) =>
        \A i \in 1..Len(max_instances) :
            LastRow(i).score =
                FDivInt(PairSum(max_instances, i, 1), Cardinality(ImageFolders) - 1)

\* C24 amended: the groups of an image are made of that image's records
\* only: every member and every output row comes from a record of the image
\* with a valid shape, and a folder that holds records of other images only
\* gets no row. The score is the one thing that looks beyond the image: it
\* divides by the number of folders of the whole table minus one.
C24_GroupsFromImageRecords ==
    /\ \A r \in 1..Len(image_data) :
          /\ image_data[r].folderName \in ImageFolders
          /\ \E i \in ImageRecords :
                /\ df[i].folderName = image_data[r].folderName
                /\ df[i].className = image_data[r].className
                /\ df[i].creatorEmail = image_data[r].creatorEmail
                /\ image_data[r].area = Area(Shape(df[i].meta, annot_type))
    /\ (GroupWritten /\ Len(max_instances) >= 2) =>
          \A i \in 1..Len(max_instances) :
              /\ \E k \in ImageRecords :
                    /\ df[k].folderName = max_instances[i].proj
                    /\ df[k].className = max_instances[i].className
                    /\ Shape(df[k].meta, annot_type) = max_instances[i].inst
              /\ LastRow(i).score =
                    FDivInt(PairSum(max_instances, i, 1), Cardinality(TableFolders) - 1)

\* folder C holds a record of another image and none of this image: the two
\* coinciding points of A and B form a group and score one half each
C24_Witness ==
    /\ GroupWritten /\ annot_type = "point"
    /\ \E i \in 1..Len(df) : df[i].imageName # ImageName /\ df[i].folderName = "C"
    /\ ImageFolders = {"A", "B"}
    /\ Len(max_instances) = 2
    /\ max_instances[1].inst = max_instances[2].inst
    /\ LastRow(1).score = << 1, 2 >> /\ LastRow(2).score = << 1, 2 >>
    /\ \A r \in 1..Len(image_data) : image_data[r].folderName # "C"

\* a shape that is no valid geometry: a rectangle that covers no cell, a ring
\* that cuts itself
InvalidShape(g) ==
    /\ g.type = "Polygon"
    /\ IF "ring" \in DOMAIN g THEN g.ring = "crossed" ELSE Cells(g) = {}

\* the records of the image in a folder whose shape is a valid geometry
ValidRecords(folder) ==
    { i \in ImageRecords : /\ df[i].folderName = folder
                           /\ ~InvalidShape(Shape(df[i].meta, annot_type)) }

\* C25 as stated: a record of invalid geometry is left out and nothing is
\* aborted for it: it has no slot in projects_shaply_objs and so no visited
\* flag, it is never an argument of the scorer, never a member of a group and
\* never behind an output row; the valid records all get their row when the
\* run returns, and a run raises only over an empty polygon or for an
\* annot_type that is none of bbox, polygon and point, never over a record of
\* degenerate coordinates.
C25_AsStated ==
    cpc # "build" =>
        /\ \A p \in 1..Len(projects_shaply_objs) :
              /\ Len(visited_instances[p]) = Cardinality(ValidRecords(projects_shaply_objs[p].proj))
              /\ Len(projects_shaply_objs[p].instances) = Len(visited_instances[p])
              /\ \A i \in 1..Len(projects_shaply_objs[p].instances) :
                    ~InvalidShape(projects_shaply_objs[p].instances[i].inst)
        /\ \A c \in scorer_calls : ~InvalidShape(c.inst_1) /\ ~InvalidShape(c.inst_2)
        /\ \A i \in 1..Len(max_instances) : ~InvalidShape(max_instances[i].inst)
        /\ \A f \in ImageFolders :
              Cardinality({ r \in 1..Len(image_data) : image_data[r].folderName = f })
                 <= Cardinality(ValidRecords(f))
        /\ cpc = "done" =>
              \A f \in ImageFolders :
                 Cardinality({ r \in 1..Len(image_data) : image_data[r].folderName = f })
                    = Cardinality(ValidRecords(f))
        /\ cpc = "raised" =>
              \/ /\ cons_raised = "scorer"
                 /\ annot_type = "polygon"
                 /\ \E i \in ImageRecords : Shape(df[i].meta, annot_type) = EmptyPolygon
              \/ /\ cons_raised = "UnboundLocalError"
                 /\ annot_type \notin {"bbox", "polygon", "point"}
                 /\ ImageRecords # {}

\* ------------------------------------------------------ write-back claims
\* the first rows of the instances of an image, and the earliest of them
ImageFirsts(img) ==
    { r \in 1..Len(annotation_data) :
         FirstOfInstance(r) /\ annotation_data[r].imageName = img }

EarliestFirst(img) == CHOOSE r \in ImageFirsts(img) : \A q \in ImageFirsts(img) : r <= q

WrittenDoc(img) ==
    written[CHOOSE k \in 1..Len(written) : written[k].name = << img, OBJECTS >>].doc

\* the fields of a written instance are those of the first row of the instance
InstanceFromFirstRow(img) ==
    \A r \in ImageFirsts(img) :
        LET out == WrittenInstance(img, annotation_data[r].instanceId) IN
        /\ out.className = annotation_data[r].className
        /\ out.type = annotation_data[r].type
        /\ out.groupId = annotation_data[r].groupId
        /\ out.locked = (IF annotation_data[r].locked = "True" THEN "True" ELSE "False")
        /\ \A k \in DOMAIN annotation_data[r].meta : out[k] = annotation_data[r].meta[k]

\* C26 as stated: the metadata block of a written image holds the width,
\* height, status and pinned flag of the first row of the image's first
\* instance, and every instance holds the fields of its own first row.
C26_AsStated ==
    wpc = "written" =>
        \A img \in TableImages :
            LET first == annotation_data[EarliestFirst(img)]
                md == WrittenDoc(img).metadata
            IN /\ md.width = first.imageWidth
               /\ md.height = first.imageHeight
               /\ md.status = first.imageStatus
               /\ md.pinned = (IF first.imagePinned = "True" THEN "True" ELSE "False")
               /\ InstanceFromFirstRow(img)

\* the width or height written for an image whose first value is v: v when
\* it is not 0, else the first later value that is not 0, else 0
FirstNonZero(img, col) ==
    LET nz == { r \in ImageFirsts(img) : annotation_data[r][col] # 0 } IN
    IF nz = {} THEN 0
    ELSE annotation_data[CHOOSE r \in nz : \A q \in nz : r <= q][col]

\* C26 amended: each of the four image values is the first one that counts
\* as true among the first rows of the image's instances, taken in the order
\* the instances are first met.  The value of the first row of the first
\* instance is written when it counts as true (a number other than 0, a
\* non-empty status, a pinned flag that is set).  A width or height of 0 gives
\* way to the first later one that is not 0; a null width or height, of the
\* first row or of the row that takes over from a 0, is never replaced and
\* never written: the call raises.  The pinned flag written is set as soon as
\* the first row of any instance of the image has it set, and the status is
\* that of the earliest first row that has one.  Every instance holds the
\* fields of its own first row.
C26_FirstTrueValue ==
    wpc = "written" =>
        \A img \in TableImages :
            LET firsts == ImageFirsts(img)
                first == annotation_data[EarliestFirst(img)]
                md == WrittenDoc(img).metadata
                withStatus == { r \in firsts : annotation_data[r].imageStatus \notin {None, ""} }
            IN /\ first.imageWidth # NullId /\ first.imageHeight # NullId
               /\ md.width = FirstNonZero(img, "imageWidth") /\ md.width # NullId
               /\ md.height = FirstNonZero(img, "imageHeight") /\ md.height # NullId
               /\ md.pinned = "True" <=> \E r \in firsts : annotation_data[r].imagePinned = "True"
               /\ md.pinned \in {"True", "False"}
               /\ withStatus # {} =>
                     \E r \in withStatus :
                         /\ \A q \in withStatus : r <= q
                         /\ md.status = annotation_data[r].imageStatus
               /\ withStatus = {} => md.status \in {None, ""}
               /\ InstanceFromFirstRow(img)

\* the first instance of img1 comes from a file without status, not pinned,
\* of width and height 0, a later one from a completed and pinned file of the
\* same image name, 30 wide and 15 high: the file written is completed,
\* pinned, 30 wide and 15 high
C26_Witness ==
    /\ wpc = "written"
    /\ \E r, q \in ImageFirsts("img1") :
          /\ r = EarliestFirst("img1") /\ r < q
          /\ annotation_data[r].imagePinned = "False"
          /\ annotation_data[r].imageStatus = ""
          /\ annotation_data[r].imageWidth = 0
          /\ annotation_data[r].imageHeight = 0
          /\ annotation_data[q].imagePinned = "True"
          /\ annotation_data[q].imageStatus = "Completed"
          /\ annotation_data[q].imageWidth = 30
          /\ annotation_data[q].imageHeight = 15
    /\ WrittenDoc("img1").metadata =
          [width |-> 30, height |-> 15, status |-> "Completed", pinned |-> "True"]

\* the output rows, and the valid records of the image, of a folder, a class
\* and an area
RowsLike(f, c, a) ==
    { r \in 1..Len(image_data) : /\ image_data[r].folderName = f
                                 /\ image_data[r].className = c
                                 /\ image_data[r].area = a }

RecordsLike(f, c, a) ==
    { i \in ValidRecords(f) : /\ df[i].className = c
                              /\ Area(Shape(df[i].meta, annot_type)) = a }

RecordAreas == { Area(Shape(df[i].meta, annot_type)) : i \in ImageRecords }

\* C27: no valid record of the image is written twice while the loop runs,
\* and when the loop has ended every one of them is marked visited and has
\* exactly one output row: the rows of a folder, class and area are as many
\* as the valid records of that folder, class and area.
C27_OneRowPerInstance ==
    /\ cpc \in {"match", "done"} =>
          \A f \in ImageFolders : \A c \in ConsClasses : \A a \in RecordAreas :
              Cardinality(RowsLike(f, c, a)) <= Cardinality(RecordsLike(f, c, a))
    /\ cpc = "done" =>
          /\ \A p \in 1..Len(visited_instances) :
                \A i \in 1..Len(visited_instances[p]) : visited_instances[p][i]
          /\ \A f \in ImageFolders : \A c \in ConsClasses : \A a \in RecordAreas :
                Cardinality(RowsLike(f, c, a)) = Cardinality(RecordsLike(f, c, a))
          /\ \A r \in 1..Len(image_data) : image_data[r].folderName \in ImageFolders

\* three folders with one valid record each, two of one class and one of
\* the other: three rows in two groups, everything visited
C27_Witness ==
    /\ cpc = "done" /\ cons_raised = None
    /\ ImageFolders = {"A", "B", "C"}
    /\ \A f \in ImageFolders : Cardinality(ValidRecords(f)) = 1
    /\ { df[i].className : i \in ImageRecords } = ConsClasses
    /\ Len(image_data) = 3
    /\ { image_data[r].instanceId : r \in 1..3 } = {0, 1}
    /\ \A p \in 1..Len(visited_instances) :
          \A i \in 1..Len(visited_instances[p]) : visited_instances[p][i]

\* C28: every score written lies in [0, 1] whatever the annotation type, and
\* the division by (folders of the table - 1) is never a division by zero:
\* a group holds two or more members only when the table has two or more
\* folders.
C28_ScoreRange ==
    /\ \A r \in 1..Len(image_data) :
          Le(Zero, image_data[r].score) /\ Le(image_data[r].score, One)
    /\ cons_raised # "division"
    /\ (cpc = "match" /\ Len(max_instances) >= 2) => Cardinality(TableFolders) >= 2

\* three points of one class in three folders, apart from each other: each
\* row reaches the upper end, (1 + 1) / 2
C28_Witness ==
    /\ GroupWritten /\ annot_type = "point"
    /\ Cardinality(TableFolders) = 3
    /\ Len(max_instances) = 3
    /\ \A i, j \in 1..3 : i # j => max_instances[i].inst # max_instances[j].inst
    /\ \A i \in 1..3 : LastRow(i).score = One
    /\ cons_raised = None

\* the instances of path p before the i-th that have rows in the table
EmittedBefore(p, i) == { j \in 1..(i - 1) : RowsOf(p, j) # {} }

\* C29: the instanceId of a row taken from an instance of a file is the
\* number of earlier instances of that file that have rows, so the ids of a
\* file are 0, 1, ..., k-1 in file order, start again at 0 in every file
\* and pass over the instances that appended nothing; the comment and tag
\* rows of a file have a null instanceId.
C29_InstanceIdsPerFile ==
    \A r \in 1..Len(annotation_data) :
        Observed(r) =>
            IF origin[r].inst = 0
            THEN /\ annotation_data[r].type \in {"comment", "tag"}
                 /\ annotation_data[r].instanceId = NullId
            ELSE /\ annotation_data[r].instanceId =
                       Cardinality(EmittedBefore(origin[r].path, origin[r].inst))
                 /\ annotation_data[r].type \notin {"comment", "tag"}

\* two files were read: in one the second and third instance appended
\* nothing and the fourth got id 1; the other file starts at 0 again
C29_Witness ==
    /\ pc = "done"
    /\ \E p, q \in 1..Len(annotations_paths) :
          /\ p < q
          /\ \E r \in RowsOf(p, 4) : annotation_data[r].instanceId = 1
          /\ RowsOf(p, 1) # {} /\ RowsOf(p, 2) = {} /\ RowsOf(p, 3) = {}
          /\ \E r \in RowsOf(q, 1) : annotation_data[r].instanceId = 0

\* the rows of an image and an instance id, those of them with an attribute
RowsOfKey(img, id) ==
    { r \in 1..Len(annotation_data) : /\ annotation_data[r].imageName = img
                                      /\ annotation_data[r].instanceId = id }

AttrRowsOfKey(img, id) ==
    { r \in RowsOfKey(img, id) : annotation_data[r].attributeGroupName # None }

ImageIds(img) ==
    { annotation_data[r].instanceId :
         r \in { q \in InstanceRowIds : annotation_data[q].imageName = img } }

\* C30: df_to_annotations writes one file per image name; the instances of
\* the file are as many as the distinct non-null instanceIds among the rows
\* of the image, whatever their folderName; an instance has the fields of
\* the first row of its (imageName, instanceId) and one attribute for every
\* row of that key that has an attribute group, in row order.
C30_GroupedByImageAndId ==
    wpc = "written" =>
        /\ Len(written) = Cardinality(TableImages) + 1
        /\ \A img \in TableImages :
              /\ Cardinality({ k \in 1..Len(written) :
                                  written[k].name = << img, OBJECTS >> }) = 1
              /\ Len(WrittenDoc(img).instances) = Cardinality(ImageIds(img))
              /\ InstanceFromFirstRow(img)
              /\ \A id \in ImageIds(img) :
                    LET out == WrittenInstance(img, id)
                        rows == AttrRowsOfKey(img, id)
                    IN /\ Len(out.attributes) = Cardinality(rows)
                       /\ \A r \in rows :
                             out.attributes[Cardinality({ q \in rows : q <= r })] =
                                [groupName |-> annotation_data[r].attributeGroupName,
                                 name |-> annotation_data[r].attributeName]

\* two folders hold img1: the first row of (img1, 0) comes from one folder
\* and has no attribute, later rows of (img1, 0) come from the other folder
\* and have attributes: one instance is written, with the box of the first
\* row and the attributes of the later rows
C30_Witness ==
    /\ wpc = "written"
    /\ Len(written) = 2
    /\ \E r, q \in RowsOfKey("img1", 0) :
          /\ FirstOfInstance(r) /\ r < q
          /\ annotation_data[r].folderName # annotation_data[q].folderName
          /\ annotation_data[r].attributeGroupName = None
          /\ annotation_data[q].attributeGroupName # None
          /\ annotation_data[q].meta # annotation_data[r].meta
          /\ WrittenInstance("img1", 0).points = annotation_data[r].meta.points
          /\ Len(WrittenInstance("img1", 0).attributes) = Cardinality(AttrRowsOfKey("img1", 0))
          /\ Cardinality(AttrRowsOfKey("img1", 0)) = 2

====
